---- MODULE Spec2Model ----
(***************************************************************************)
(* podman machine, applehv provider: the VM lifecycle (NewMachine, Init,   *)
(* Set, Start, Stop, Remove and the deletion function Remove returns), the *)
(* JSON config files it keeps, and the connection registry it edits.       *)
(*                                                                         *)
(* Every CLI command is one process run: it loads the VM by name from its  *)
(* config file, calls one method on the in-memory record and exits.  The   *)
(* vfkit helper (state, stop, startVfkit) is not part of the sources at    *)
(* hand; it is modelled as the hypervisor's live state with the three      *)
(* statuses of section 4.5 of the specification.                           *)
(***************************************************************************)
EXTENDS Integers, Sequences, FiniteSets, TLC

VARIABLES
    fs,      \* the file system: path -> content (NoFile when absent)
    vfkit,   \* live hypervisor state of each VM, as vfkit would report it
    reg,     \* the connection registry: [conns, dflt]
    rm,      \* the deletion function returned by Remove and not yet invoked
    last,    \* what the last command did and returned
    inv,     \* concurrent invocations of "machine start": where each one is
    cf,      \* the connections file of package connection: [conns, dflt]
    qemu     \* the last serialization of the qemu command model: [op, in, args]

vars == <<fs, vfkit, reg, rm, last, inv, cf, qemu>>

(***************************************************************************)
(* Bounds                                                                  *)
(***************************************************************************)
MaxDisk == 2      \* disk sizes are 1..MaxDisk
MaxFaults == 1    \* files one run of the deletion function fails to unlink
MaxNames == 2     \* entries named by one request to the connection registry
MaxDevices == 2   \* mounts, and firmware configs, of a command model
MaxRetries == 2   \* the retries of WaitPipeExists are -1..MaxRetries

VMs == {"box"}
\* the machines of the host on which invocations run side by side, in the
\* lexical order in which filepath.WalkDir meets their config files
HostVMs == <<"box", "dev">>
CPUCounts == {1, 2}
MemSizes == {1024, 2048}
DiskSizes == 1..MaxDisk
Nil == 0          \* a nil *uint64 option of SetOptions
Now == 1          \* time.Now(): some non-zero instant
ZeroTime == 0     \* time.Time{}: IsZero() holds

(***************************************************************************)
(* machine.Status and the errors of package machine                        *)
(***************************************************************************)
Running == "running"
Starting == "starting"
Stopped == "stopped"
Statuses == {Running, Starting, Stopped}

NoErr == "nil"
ErrVMAlreadyRunning == "ErrVMAlreadyRunning"
ErrWrongState == "ErrWrongState"
ErrNoSuchVM == "ErrNoSuchVM"
ErrInvalidStateRunning == "invalid state: is running"
ErrShrink == "new disk size smaller than existing disk size: cannot shrink disk size"
ErrNoName == "encountered machine with no name"
ErrSyntax == "json: syntax error"
ECONNREFUSED == "ECONNREFUSED"
ErrProcessExited == "ErrProcessExited"
EIO == "EIO"
EACCES == "EACCES"
EPERM == "EPERM"
ENOENT == "ENOENT"
ErrVfkit == "vfkit: request failed"
ErrIdentity == "identity must be defined"
ErrOverwrite == "cannot overwrite connection"
ErrNoConn == "unable to find connection"

(***************************************************************************)
(* Paths.  A path is <<vm, suffix>>; the empty string is NoPath.           *)
(***************************************************************************)
NoPath == <<"", "">>
getVMConfigPath(name) == <<name, ".json">>
IgnitionPath(name) == <<name, ".ign">>
GetIdentityPath(name) == <<name, "">>
PubKey(p) == <<p[1], ".pub">>
ImageFile(name) == <<name, ".raw">>
PathsOf(names) == (names \X {".json", ".ign", "", ".pub", ".raw"}) \cup {NoPath, PubKey(NoPath)}
Paths == PathsOf(VMs)


(***************************************************************************)
(* Connection names: name and name + "-root"; "" is no connection.         *)
(***************************************************************************)
NoConn == <<"", "">>
NoConnections == [conns |-> {}, dflt |-> NoConn]
Conn(name) == <<name, "">>
RootConn(name) == <<name, "-root">>
ConnNames == {Conn(v) : v \in VMs} \cup {RootConn(v) : v \in VMs}

(***************************************************************************)
(* MacMachine: the fields of the record the operations read or write.      *)
(***************************************************************************)
MacMachine(name) ==
    [ Name         |-> name,
      ConfigPath   |-> NoPath,
      IgnitionFile |-> NoPath,
      IdentityPath |-> NoPath,
      ImagePath    |-> NoPath,
      CPUs         |-> 0,
      Memory       |-> 0,
      DiskSize     |-> 0,
      Starting     |-> FALSE,
      Created      |-> ZeroTime,
      LastUp       |-> ZeroTime ]

NoMachine == MacMachine("")   \* MacMachine{}

\* File contents: absent, some bytes that are no JSON document (a key, an
\* image, an ignition payload), an empty file, or a JSON document.
NoFile == [kind |-> "absent", json |-> NoMachine]
Blob == [kind |-> "data", json |-> NoMachine]
Truncated == [kind |-> "empty", json |-> NoMachine]

\* json.MarshalIndent(m) and json.Unmarshal(b, &mm): a document holds the
\* exported fields; an empty or foreign file does not parse.
\* encoding/json writes the exported fields of the struct, one key each, and
\* reads a document into a zero MacMachine{}: a key sets its field, a field
\* without a key keeps its zero value.
ExportedFields ==
    { "Name", "ConfigPath", "IgnitionFile", "IdentityPath", "ImagePath",
      "CPUs", "Memory", "DiskSize", "Starting", "Created", "LastUp" }

\* an encoding that leaves the two times out of the document
Marshal_NoTimes(m) ==
    [kind |-> "json", json |-> [k \in ExportedFields \ {"Created", "LastUp"} |-> m[k]]]

Marshal(m) == [kind |-> "json", json |-> [k \in ExportedFields |-> m[k]]]
IsJSON(b) == b.kind = "json"
Unmarshal(b) ==
    IF IsJSON(b) THEN [err |-> NoErr, m |-> b.json @@ NoMachine]
    ELSE [err |-> ErrSyntax, m |-> NoMachine]

\* os.ReadFile(path): rd is what the file system answers for a file that
\* exists (the read succeeds or is refused).
ReadOutcomes == {NoErr, EACCES}
osReadFile(fsys, path, rd) ==
    IF fsys[path] = NoFile THEN [err |-> ENOENT, b |-> NoFile]
    ELSE IF rd # NoErr THEN [err |-> rd, b |-> NoFile]
    ELSE [err |-> NoErr, b |-> fsys[path]]

\* loadMacMachineFromJSON that reports every read failure as a missing machine.
loadMacMachineFromJSONRead_AllNoSuchVM(fsys, fqConfigPath, rd) ==
    LET r == osReadFile(fsys, fqConfigPath, rd)
    IN  IF r.err # NoErr THEN [err |-> ErrNoSuchVM, m |-> NoMachine]
        ELSE Unmarshal(r.b)

loadMacMachineFromJSONRead(fsys, fqConfigPath, rd) ==
    LET r == osReadFile(fsys, fqConfigPath, rd)
    IN  IF r.err = ENOENT THEN [err |-> ErrNoSuchVM, m |-> NoMachine]
        ELSE IF r.err # NoErr THEN [err |-> r.err, m |-> NoMachine]
        ELSE Unmarshal(r.b)

\* machine.GetConfDir(vmtype): the directory of the config files, and what
\* os.ReadFile answers for a directory.
ConfDir == <<"", "/">>
Directory == [kind |-> "dir", json |-> NoMachine]
EISDIR == "EISDIR"

\* Virtualization.IsValidVMName(name): mm carries the name, but the path
\* handed to loadMacMachineFromJSON is configDir itself.
IsValidVMName(fsys, name) ==
    LET mm  == MacMachine(name)
        err == loadMacMachineFromJSONRead((ConfDir :> Directory) @@ fsys, ConfDir, EISDIR).err
    IN  [valid |-> err = NoErr, err |-> err]

loadFromFileRead(fsys, name, rd) ==
    IF name = ""
    THEN [err |-> ErrNoName, m |-> NoMachine]
    ELSE loadMacMachineFromJSONRead(fsys, getVMConfigPath(name), rd)

LoadVMByNameRead(fsys, name, rd) == loadFromFileRead(fsys, name, rd)

\* os.ReadFile + json.Unmarshal
loadMacMachineFromJSON(fsys, fqConfigPath) ==
    IF fsys[fqConfigPath] = NoFile
    THEN [err |-> ErrNoSuchVM, m |-> NoMachine]
    ELSE Unmarshal(fsys[fqConfigPath])

loadFromFile(fsys, name) ==
    IF name = ""
    THEN [err |-> ErrNoName, m |-> NoMachine]
    ELSE loadMacMachineFromJSON(fsys, getVMConfigPath(name))

LoadVMByName(fsys, name) == loadFromFile(fsys, name)

\* os.WriteFile(m.ConfigPath.Path, b, 0644).  io is what the file system does:
\* the write succeeds, the open is refused (file untouched), or the write
\* fails after the file was truncated.
WriteOutcomes == {NoErr, EACCES, EIO}
writeConfig(fsys, m, io) ==
    [ err |-> io,
      fs  |-> CASE io = NoErr  -> [fsys EXCEPT ![m.ConfigPath] = Marshal(m)]
                [] io = EACCES -> fsys
                [] io = EIO    -> [fsys EXCEPT ![m.ConfigPath] = Truncated] ]

(***************************************************************************)
(* The vfkit helper.                                                       *)
(***************************************************************************)
\* VfkitHelper.state(): the live status, or connection refused while no
\* hypervisor process serves the endpoint.
StateReplies(v) == {vfkit[v]} \cup (IF vfkit[v] = Stopped THEN {ECONNREFUSED} ELSE {})

\* VfkitHelper.startVfkit(m): spawns the hypervisor process.
VfkitOutcomes == {NoErr, ErrVfkit}
startVfkit(hv, v, io) == IF io = NoErr THEN [hv EXCEPT ![v] = Starting] ELSE hv

\* VfkitHelper.stop(force, wait)
stop(hv, v, io) == IF io = NoErr THEN [hv EXCEPT ![v] = Stopped] ELSE hv

(***************************************************************************)
(* The connection registry (containers.conf: Engine.ServiceDestinations    *)
(* and Engine.ActiveService).  Every edit reads the file, changes the      *)
(* copy and writes it back; a map that is empty in the file reads as nil.  *)
(***************************************************************************)
\* config.ReadCustomConfig / config.EditConnectionConfig: a map without
\* entries is left out of the file, and reads back as a nil map.
IsNilMap(conns) == conns = {}

\* AddConnection without the first-entry rule.
AddConnection_NoFirstEntryRule(r, name, identity, isDefault) ==
    IF identity = NoPath THEN [err |-> ErrIdentity, reg |-> r]
    ELSE IF name \in r.conns THEN [err |-> ErrOverwrite, reg |-> r]
    ELSE [ err |-> NoErr,
           reg |-> [ conns |-> r.conns \cup {name},
                     dflt  |-> IF isDefault THEN name ELSE r.dflt ] ]

AddConnection(r, name, identity, isDefault) ==
    IF identity = NoPath THEN [err |-> ErrIdentity, reg |-> r]
    ELSE IF name \in r.conns THEN [err |-> ErrOverwrite, reg |-> r]
    ELSE [ err |-> NoErr,
           reg |-> [ conns |-> r.conns \cup {name},
                     dflt  |-> IF isDefault \/ IsNilMap(r.conns) THEN name ELSE r.dflt ] ]

ChangeDefault(r, name) == [err |-> NoErr, reg |-> [r EXCEPT !.dflt = name]]

\* for service := range cfg.Engine.ServiceDestinations { ...; break }: the map's
\* iteration order is unspecified; first is the entry this run meets first.
FirstOf(conns, first) ==
    IF conns = {} THEN NoConn
    ELSE IF first \in conns THEN first
    ELSE CHOOSE c \in conns : TRUE

RECURSIVE RemoveLoop(_, _, _)
RemoveLoop(r, names, first) ==
    IF names = <<>> THEN [err |-> NoErr, reg |-> r, named |-> NoConn]
    ELSE IF Head(names) \notin r.conns
    THEN [err |-> ErrNoConn, reg |-> r, named |-> Head(names)]
    ELSE LET left == r.conns \ {Head(names)}
             r1   == [ conns |-> left,
                       dflt  |-> IF r.dflt = Head(names) THEN FirstOf(left, first)
                                 ELSE r.dflt ]
         IN  RemoveLoop(r1, Tail(names), first)

\* RemoveConnections that writes what it had deleted when a name is missing.
RemoveConnections_WritesPartial(r, names, first) == RemoveLoop(r, names, first)

\* The registry is written only when no name was missing.
RemoveConnections(r, names, first) ==
    LET out == RemoveLoop(r, names, first)
    IN  IF out.err = NoErr THEN out
        ELSE [err |-> out.err, reg |-> r, named |-> out.named]

(***************************************************************************)
(* Package connection: the same registry kept in the connections file.     *)
(* config.EditConnectionConfig reads the file, runs the edit on the copy   *)
(* and writes the copy back unless the edit returned an error.             *)
(***************************************************************************)
ErrNilMap == "panic: assignment to entry in nil map"

EditConnectionConfig(c, out) ==
    IF out.err = NoErr THEN out ELSE [out EXCEPT !.cf = c]

\* for i, con := range cons { ... }
RECURSIVE addConnectionLoop(_, _, _, _)
addConnectionLoop(c, cons, isDefault, i) ==
    IF i > Len(cons) THEN [err |-> NoErr, cf |-> c, named |-> NoConn]
    ELSE IF cons[i] \in c.conns THEN [err |-> ErrOverwrite, cf |-> c, named |-> cons[i]]
    ELSE LET d1 == IF isDefault /\ i = 1 THEN cons[i] ELSE c.dflt
             c1 == IF IsNilMap(c.conns)
                   THEN [conns |-> {cons[i]}, dflt |-> cons[i]]
                   ELSE [conns |-> c.conns \cup {cons[i]}, dflt |-> d1]
         IN  addConnectionLoop(c1, cons, isDefault, i + 1)

addConnection(c, cons, identity, isDefault) ==
    IF identity = NoPath THEN [err |-> ErrIdentity, cf |-> c, named |-> NoConn]
    ELSE EditConnectionConfig(c, addConnectionLoop(c, cons, isDefault, 1))

\* createConnections(name, ...) yields the pair name, name-root; an assignment
\* to an entry of a nil map panics, and nothing is written.
UpdateConnectionPairPort(c, name) ==
    IF IsNilMap(c.conns) THEN [err |-> ErrNilMap, cf |-> c]
    ELSE [err |-> NoErr, cf |-> [c EXCEPT !.conns = @ \cup {Conn(name), RootConn(name)}]]

\* UpdateConnectionIfDefault that sets the requested variant whatever the default.
UpdateConnectionIfDefault_Always(c, rootful, name, rootfulName) ==
    [ err |-> NoErr,
      cf  |-> IF rootful THEN [c EXCEPT !.dflt = rootfulName]
              ELSE [c EXCEPT !.dflt = name] ]

UpdateConnectionIfDefault(c, rootful, name, rootfulName) ==
    [ err |-> NoErr,
      cf  |-> IF name = c.dflt /\ rootful THEN [c EXCEPT !.dflt = rootfulName]
              ELSE IF rootfulName = c.dflt /\ ~rootful THEN [c EXCEPT !.dflt = name]
              ELSE c ]

\* the first loop of setNewDefaultConnection
RECURSIVE deleteNames(_, _)
deleteNames(c, names) ==
    IF names = <<>> THEN [err |-> NoErr, cf |-> c, named |-> NoConn]
    ELSE IF Head(names) \notin c.conns
    THEN [err |-> ErrNoConn, cf |-> c, named |-> Head(names)]
    ELSE deleteNames([ conns |-> c.conns \ {Head(names)},
                       dflt  |-> IF c.dflt = Head(names) THEN NoConn ELSE c.dflt ],
                     Tail(names))

\* service is the entry the second loop meets first ("" when none is left)
setNewDefaultConnection(c, names, first) ==
    LET d       == deleteNames(c, names)
        service == FirstOf(d.cf.conns, first)
    IN  IF d.err # NoErr THEN [err |-> d.err, cf |-> d.cf, named |-> d.named, service |-> NoConn]
        ELSE [ err |-> NoErr, named |-> NoConn, service |-> service,
               cf  |-> IF service = NoConn THEN d.cf ELSE [d.cf EXCEPT !.dflt = service] ]

\* machines maps the name of every machine to its rootful flag; every entry
\* these packages add is a machine's (IsMachine).
ConnectionRemoveConnections(c, machines, names, first) ==
    LET e == EditConnectionConfig(c, setNewDefaultConnection(c, names, first))
        u == UpdateConnectionIfDefault(e.cf, machines[e.service[1]], e.service,
                                       RootConn(e.service[1]))
    IN  IF e.err # NoErr THEN [err |-> e.err, cf |-> e.cf, named |-> e.named]
        ELSE IF e.service # NoConn /\ e.service[2] = "" /\ e.service[1] \in DOMAIN machines
        THEN [err |-> u.err, cf |-> u.cf, named |-> NoConn]
        ELSE [err |-> NoErr, cf |-> e.cf, named |-> NoConn]

(***************************************************************************)
(* What the last command returned and did.                                 *)
(***************************************************************************)
\* No deletion function is pending.
NoRm == [vm |-> "", files |-> <<>>, msg |-> <<>>]

\* no command model was serialized yet
NoCmdline == [op |-> "none", in |-> <<>>, args |-> <<>>]

Idle(op, v) ==
    [ op |-> op, vm |-> v, err |-> NoErr, errs |-> <<>>, calls |-> <<>>,
      wrote |-> FALSE, m |-> NoMachine, tried |-> <<>>, logged |-> <<>>,
      listed |-> <<>>, named |-> NoConn, req |-> <<>> ]

\* One command runs at a time; while the confirmation prompt of rm is open
\* only its answer (and the hypervisor) moves.
Prompt == rm # NoRm

(***************************************************************************)
(* Virtualization.NewMachine                                               *)
(***************************************************************************)
NewMachineRecord(name, cpus, mem, disk) ==
    [ MacMachine(name) EXCEPT
        !.ConfigPath   = getVMConfigPath(name),
        !.IgnitionFile = IgnitionPath(name),
        !.Created      = Now,
        !.CPUs         = cpus,
        !.Memory       = mem,
        !.DiskSize     = disk ]

NewMachineStep(v, cpus, mem, disk, io) ==
    LET m  == NewMachineRecord(v, cpus, mem, disk)
        w  == writeConfig(fs, m, io)
        ld == IF w.err # NoErr THEN [err |-> w.err, m |-> NoMachine]
              ELSE loadFromFile(w.fs, v)
    IN  /\ ~Prompt
        /\ fs' = w.fs
        /\ last' = [Idle("NewMachine", v) EXCEPT
                      !.err = ld.err, !.m = ld.m, !.wrote = TRUE]
        /\ UNCHANGED <<vfkit, reg, rm>>

NewMachine(v) ==
    \E cpus \in CPUCounts, mem \in MemSizes, disk \in DiskSizes, io \in WriteOutcomes :
        \* a failed write leaves the same state whatever was asked for
        /\ (io # NoErr => cpus = 1 /\ disk = 1 /\ mem = 1024)
        /\ NewMachineStep(v, cpus, mem, disk, io)
        /\ UNCHANGED <<inv, cf, qemu>>

\* podman machine init with the resources of the specification's scenario
ScenarioResources == [CPUs |-> 2, Memory |-> 2048, DiskSize |-> 1]

NewScenarioMachine(v) ==
    \E io \in WriteOutcomes :
        /\ NewMachineStep(v, ScenarioResources.CPUs, ScenarioResources.Memory,
                          ScenarioResources.DiskSize, io)
        /\ UNCHANGED <<inv, cf, qemu>>

(***************************************************************************)
(* MacMachine.Init, called on the record NewMachine has just returned      *)
(***************************************************************************)
InitOptions ==
    [ Rootful : BOOLEAN, IsDefault : BOOLEAN, IgnitionPath : BOOLEAN,
      ImagePath : {"", "custom"} ]

\* names and order of the two connections Init adds
InitNames(name, rootful) ==
    IF rootful THEN <<RootConn(name), Conn(name)>> ELSE <<Conn(name), RootConn(name)>>

\* for i := 0; i < 2; i++ { AddConnection(...) }: the second is not tried when
\* the first fails, and the first is not undone when the second fails.
InitConnections(r, name, identity, opts) ==
    LET names == InitNames(name, opts.Rootful)
        a1 == AddConnection(r, names[1], identity, opts.IsDefault)
        a2 == AddConnection(a1.reg, names[2], identity, FALSE)
    IN  IF a1.err # NoErr THEN a1 ELSE a2

\* dl is the outcome of machine.DownloadImage, io of the config write.
MacMachineInit(fsys, r, m0, opts, dl, io) ==
    LET custom == opts.ImagePath = "custom"
        m   == [m0 EXCEPT !.ImagePath = ImageFile(m0.Name),
                          !.IdentityPath = GetIdentityPath(m0.Name)]
        fs1 == IF custom THEN [fsys EXCEPT ![m.ImagePath] = Blob] ELSE fsys
        ac  == IF opts.IgnitionPath THEN [err |-> NoErr, reg |-> r]
               ELSE InitConnections(r, m.Name, m.IdentityPath, opts)
        w   == writeConfig(fs1, m, io)
        fs2 == IF opts.IgnitionPath
               THEN [w.fs EXCEPT ![m.IgnitionFile] = Blob]
               ELSE [w.fs EXCEPT ![m.IdentityPath] = Blob,
                                 ![PubKey(m.IdentityPath)] = Blob,
                                 ![m.IgnitionFile] = Blob]
    IN  IF custom /\ dl # NoErr
        THEN [err |-> dl, fs |-> fsys, reg |-> r, wrote |-> FALSE]
        ELSE IF ac.err # NoErr
        THEN [err |-> ac.err, fs |-> fs1, reg |-> ac.reg, wrote |-> FALSE]
        ELSE IF w.err # NoErr
        THEN [err |-> w.err, fs |-> w.fs, reg |-> ac.reg, wrote |-> TRUE]
        ELSE [err |-> NoErr, fs |-> fs2, reg |-> ac.reg, wrote |-> TRUE]

InitStep(v, opts, dl, io) ==
    LET r == MacMachineInit(fs, reg, last.m, opts, dl, io)
    IN  /\ ~Prompt
        /\ last.op = "NewMachine" /\ last.vm = v /\ last.err = NoErr
        /\ fs' = r.fs
        /\ reg' = r.reg
        /\ last' = [Idle("Init", v) EXCEPT !.err = r.err, !.wrote = r.wrote]
        /\ UNCHANGED <<vfkit, rm>>

MachineInit(v) ==
    \E opts \in InitOptions, dl \in {NoErr, EIO}, io \in WriteOutcomes :
        /\ (opts.ImagePath = "" => dl = NoErr)
        /\ InitStep(v, opts, dl, io)
        /\ UNCHANGED <<inv, cf, qemu>>

(***************************************************************************)
(* MacMachine.Start                                                        *)
(***************************************************************************)
\* Start without the check of the running state.
StartCalls_NoCheck(st) ==
    IF st \notin Statuses THEN [err |-> st, calls |-> <<>>]
    ELSE [err |-> NoErr, calls |-> <<"startVfkit">>]

\* Start that returns success without spawning the hypervisor.
StartCalls_NoSpawn(st) ==
    IF st \notin Statuses THEN [err |-> st, calls |-> <<>>]
    ELSE IF st = Running THEN [err |-> ErrVMAlreadyRunning, calls |-> <<>>]
    ELSE [err |-> NoErr, calls |-> <<>>]

\* st is the reply of m.State(false); the result names the helper calls made.
StartCalls(st) ==
    IF st \notin Statuses THEN [err |-> st, calls |-> <<>>]
    ELSE IF st = Running THEN [err |-> ErrVMAlreadyRunning, calls |-> <<>>]
    ELSE [err |-> NoErr, calls |-> <<"startVfkit">>]

StartStep(v, st, io) ==
    LET ld == LoadVMByName(fs, v)
        r  == StartCalls(st)
    IN  /\ ~Prompt
        /\ ld.err = NoErr
        /\ st \in StateReplies(v)
        /\ vfkit' = IF r.calls = <<>> THEN vfkit ELSE startVfkit(vfkit, v, io)
        /\ last' = [Idle("Start", v) EXCEPT
                      !.calls = r.calls,
                      !.err = IF r.calls = <<>> THEN r.err ELSE io]
        /\ UNCHANGED <<fs, reg, rm>>

\* one run of Start, whatever the helper replies
StartRun(v) ==
    \E st \in Statuses \cup {ECONNREFUSED}, io \in VfkitOutcomes :
        /\ (StartCalls(st).calls = <<>> => io = NoErr)
        /\ StartStep(v, st, io)

Start(v) == StartRun(v) /\ UNCHANGED <<inv, cf, qemu>>

\* The guest signals readiness: the hypervisor reports the VM running.
BackendReady(v) ==
    /\ vfkit[v] = Starting
    /\ vfkit' = [vfkit EXCEPT ![v] = Running]
    /\ UNCHANGED <<fs, reg, rm, last, inv, cf, qemu>>

(***************************************************************************)
(* MacMachine.Stop                                                         *)
(***************************************************************************)
\* Stop that refuses only a stopped VM.
StopCalls_AnyState(st) ==
    IF st \notin Statuses THEN [err |-> st, calls |-> <<>>]
    ELSE IF st = Stopped THEN [err |-> ErrWrongState, calls |-> <<>>]
    ELSE [err |-> NoErr, calls |-> <<"stop">>]

StopCalls(st) ==
    IF st \notin Statuses THEN [err |-> st, calls |-> <<>>]
    ELSE IF st # Running THEN [err |-> ErrWrongState, calls |-> <<>>]
    ELSE [err |-> NoErr, calls |-> <<"stop">>]

StopStep(v, st, io) ==
    LET ld == LoadVMByName(fs, v)
        r  == StopCalls(st)
    IN  /\ ~Prompt
        /\ ld.err = NoErr
        /\ st \in StateReplies(v)
        /\ vfkit' = IF r.calls = <<>> THEN vfkit ELSE stop(vfkit, v, io)
        /\ last' = [Idle("Stop", v) EXCEPT
                      !.calls = r.calls,
                      !.err = IF r.calls = <<>> THEN r.err ELSE io]
        /\ UNCHANGED <<fs, reg, rm>>

Stop(v) ==
    \E st \in Statuses \cup {ECONNREFUSED}, io \in VfkitOutcomes :
        /\ (StopCalls(st).calls = <<>> => io = NoErr)
        /\ StopStep(v, st, io)
        /\ UNCHANGED <<inv, cf, qemu>>

(***************************************************************************)
(* MacMachine.Set                                                          *)
(***************************************************************************)
SetOptions ==
    [ CPUs     : {Nil} \cup CPUCounts,
      Memory   : {Nil} \cup MemSizes,
      DiskSize : {Nil} \cup DiskSizes ]

\* The option checks that accept a larger disk size without recording it.
SetFields_NoGrow(m, opts) ==
    LET m1 == IF opts.CPUs # Nil THEN [m EXCEPT !.CPUs = opts.CPUs] ELSE m
        m2 == IF opts.Memory # Nil THEN [m1 EXCEPT !.Memory = opts.Memory] ELSE m1
    IN  IF opts.DiskSize = Nil THEN [m |-> m2, setErrors |-> <<>>]
        ELSE IF opts.DiskSize < m2.DiskSize THEN [m |-> m2, setErrors |-> <<ErrShrink>>]
        ELSE [m |-> m2, setErrors |-> <<>>]

\* The option checks that change no field when the disk size is refused.
SetFields_AllOrNothing(m, opts) ==
    LET m1 == IF opts.CPUs # Nil THEN [m EXCEPT !.CPUs = opts.CPUs] ELSE m
        m2 == IF opts.Memory # Nil THEN [m1 EXCEPT !.Memory = opts.Memory] ELSE m1
    IN  IF opts.DiskSize = Nil THEN [m |-> m2, setErrors |-> <<>>]
        ELSE IF opts.DiskSize < m2.DiskSize THEN [m |-> m, setErrors |-> <<ErrShrink>>]
        ELSE [m |-> [m2 EXCEPT !.DiskSize = opts.DiskSize], setErrors |-> <<>>]

\* The record after the three option checks, and the errors collected by them.
SetFields(m, opts) ==
    LET m1 == IF opts.CPUs # Nil THEN [m EXCEPT !.CPUs = opts.CPUs] ELSE m
        m2 == IF opts.Memory # Nil THEN [m1 EXCEPT !.Memory = opts.Memory] ELSE m1
    IN  IF opts.DiskSize = Nil THEN [m |-> m2, setErrors |-> <<>>]
        ELSE IF opts.DiskSize < m2.DiskSize THEN [m |-> m2, setErrors |-> <<ErrShrink>>]
        ELSE [m |-> [m2 EXCEPT !.DiskSize = opts.DiskSize], setErrors |-> <<>>]

\* switch len(setErrors), after the result of writeConfig was appended
SetReturn(setErrors) ==
    CASE Len(setErrors) = 0 -> [errs |-> setErrors, err |-> NoErr]
      [] Len(setErrors) = 1 -> [errs |-> <<>>, err |-> setErrors[1]]
      [] OTHER -> [errs |-> SubSeq(setErrors, 1, Len(setErrors) - 1),
                   err  |-> setErrors[Len(setErrors)]]

\* Set with the state check after the option checks.
MacMachineSet_LateStateCheck(fsys, m, st, opts, io) ==
    IF st \notin Statuses
    THEN [errs |-> <<>>, err |-> st, m |-> m, fs |-> fsys, wrote |-> FALSE]
    ELSE LET f == SetFields(m, opts)
             w == writeConfig(fsys, f.m, io)
             r == SetReturn(Append(f.setErrors, w.err))
         IN  IF st # Stopped
             THEN [ errs |-> <<>>, err |-> ErrWrongState, m |-> f.m, fs |-> fsys,
                    wrote |-> FALSE ]
             ELSE [errs |-> r.errs, err |-> r.err, m |-> f.m, fs |-> w.fs, wrote |-> TRUE]

\* st is the reply of m.State(false), io the outcome of the config write.
MacMachineSet(fsys, m, st, opts, io) ==
    IF st \notin Statuses
    THEN [errs |-> <<>>, err |-> st, m |-> m, fs |-> fsys, wrote |-> FALSE]
    ELSE IF st # Stopped
    THEN [errs |-> <<>>, err |-> ErrWrongState, m |-> m, fs |-> fsys, wrote |-> FALSE]
    ELSE LET f == SetFields(m, opts)
             w == writeConfig(fsys, f.m, io)
             r == SetReturn(Append(f.setErrors, w.err))
         IN  [errs |-> r.errs, err |-> r.err, m |-> f.m, fs |-> w.fs, wrote |-> TRUE]

SetStep(v, st, opts, io) ==
    LET ld == LoadVMByName(fs, v)
        r  == MacMachineSet(fs, ld.m, st, opts, io)
    IN  /\ ~Prompt
        /\ ld.err = NoErr
        /\ st \in StateReplies(v)
        /\ fs' = r.fs
        /\ last' = [Idle("Set", v) EXCEPT
                      !.err = r.err, !.errs = r.errs, !.m = r.m, !.wrote = r.wrote]
        /\ UNCHANGED <<vfkit, reg, rm>>

Set(v) ==
    \E st \in Statuses \cup {ECONNREFUSED}, opts \in SetOptions, io \in WriteOutcomes :
        \* no config write is made unless the reply is Stopped
        /\ (st # Stopped => io = NoErr)
        /\ SetStep(v, st, opts, io)
        /\ UNCHANGED <<inv, cf, qemu>>

(***************************************************************************)
(* MacMachine.Remove and the deletion function it returns                  *)
(***************************************************************************)
RemoveOptions ==
    [Force : BOOLEAN, SaveKeys : BOOLEAN, SaveIgnition : BOOLEAN, SaveImage : BOOLEAN]

\* The file list without the public key.
RemoveFiles_NoPub(m, opts) ==
    (IF ~opts.SaveKeys THEN <<m.IdentityPath>> ELSE <<>>)
    \o (IF ~opts.SaveIgnition THEN <<m.IgnitionFile>> ELSE <<>>)
    \o (IF ~opts.SaveImage THEN <<m.ImagePath>> ELSE <<>>)
    \o <<m.ConfigPath>>

\* The file list without the final append of the config file.
RemoveFiles_NoConfig(m, opts) ==
    (IF ~opts.SaveKeys THEN <<m.IdentityPath, PubKey(m.IdentityPath)>> ELSE <<>>)
    \o (IF ~opts.SaveIgnition THEN <<m.IgnitionFile>> ELSE <<>>)
    \o (IF ~opts.SaveImage THEN <<m.ImagePath>> ELSE <<>>)

\* files, as the three option checks and the final append build it
RemoveFiles(m, opts) ==
    (IF ~opts.SaveKeys THEN <<m.IdentityPath, PubKey(m.IdentityPath)>> ELSE <<>>)
    \o (IF ~opts.SaveIgnition THEN <<m.IgnitionFile>> ELSE <<>>)
    \o (IF ~opts.SaveImage THEN <<m.ImagePath>> ELSE <<>>)
    \o <<m.ConfigPath>>

\* confirmationMessage, line by line
MsgHeader == <<"The following files will be deleted:", "">>
MsgFooter == <<"", "">>
ConfirmationMessage(files) == <<MsgHeader>> \o files \o <<MsgFooter>>

\* Remove that does not look at the running state.
MacMachineRemove_NoRunningCheck(m, st, opts, io) ==
    LET files == RemoveFiles(m, opts)
        func  == [vm |-> m.Name, files |-> files, msg |-> ConfirmationMessage(files)]
    IN  IF st \notin Statuses
        THEN [err |-> st, calls |-> <<>>, func |-> NoRm]
        ELSE [err |-> NoErr, calls |-> <<>>, func |-> func]

\* Remove that goes on when the forced stop failed.
MacMachineRemove_IgnoreStopErr(m, st, opts, io) ==
    LET files == RemoveFiles(m, opts)
        func  == [vm |-> m.Name, files |-> files, msg |-> ConfirmationMessage(files)]
    IN  IF st \notin Statuses
        THEN [err |-> st, calls |-> <<>>, func |-> NoRm]
        ELSE IF st = Running /\ ~opts.Force
        THEN [err |-> ErrInvalidStateRunning, calls |-> <<>>, func |-> NoRm]
        ELSE [ err   |-> NoErr,
               calls |-> IF st = Running THEN <<"stop">> ELSE <<>>,
               func  |-> func ]

\* st is the reply of m.state(), io the outcome of m.stop(true, true).
\* Remove that refuses, unless forced, every VM that is not stopped.
MacMachineRemove_BlocksUnlessStopped(m, st, opts, io) ==
    LET files == RemoveFiles(m, opts)
        func  == [vm |-> m.Name, files |-> files, msg |-> ConfirmationMessage(files)]
    IN  IF st \notin Statuses
        THEN [err |-> st, calls |-> <<>>, func |-> NoRm]
        ELSE IF st # Stopped /\ ~opts.Force
        THEN [err |-> ErrInvalidStateRunning, calls |-> <<>>, func |-> NoRm]
        ELSE IF st = Running /\ io # NoErr
        THEN [err |-> io, calls |-> <<"stop">>, func |-> NoRm]
        ELSE [ err   |-> NoErr,
               calls |-> IF st = Running THEN <<"stop">> ELSE <<>>,
               func  |-> func ]

MacMachineRemove(m, st, opts, io) ==
    LET files == RemoveFiles(m, opts)
        func  == [vm |-> m.Name, files |-> files, msg |-> ConfirmationMessage(files)]
    IN  IF st \notin Statuses
        THEN [err |-> st, calls |-> <<>>, func |-> NoRm]
        ELSE IF st = Running /\ ~opts.Force
        THEN [err |-> ErrInvalidStateRunning, calls |-> <<>>, func |-> NoRm]
        ELSE IF st = Running /\ io # NoErr
        THEN [err |-> io, calls |-> <<"stop">>, func |-> NoRm]
        ELSE [ err   |-> NoErr,
               calls |-> IF st = Running THEN <<"stop">> ELSE <<>>,
               func  |-> func ]

RemoveStep(v, st, opts, io) ==
    LET ld == LoadVMByName(fs, v)
        r  == MacMachineRemove(ld.m, st, opts, io)
    IN  /\ ~Prompt
        /\ ld.err = NoErr
        /\ st \in StateReplies(v)
        /\ vfkit' = IF r.calls = <<>> THEN vfkit ELSE stop(vfkit, v, io)
        /\ rm' = r.func
        /\ last' = [Idle("Remove", v) EXCEPT !.err = r.err, !.calls = r.calls]
        /\ UNCHANGED <<fs, reg>>

Remove(v) ==
    \E st \in Statuses \cup {ECONNREFUSED}, opts \in RemoveOptions, io \in VfkitOutcomes :
        \* stop is called only on a forced removal of a running VM
        /\ (~(st = Running /\ opts.Force) => io = NoErr)
        /\ RemoveStep(v, st, opts, io)
        /\ UNCHANGED <<inv, cf, qemu>>

File(f) == <<"file", f>>
Connection(c) == <<"connection", c>>

\* os.Remove(f): faulty are the files the file system refuses to unlink.
osRemove(fsys, f, faulty) ==
    IF fsys[f] = NoFile THEN [err |-> ENOENT, fs |-> fsys]
    ELSE IF f \in faulty THEN [err |-> EPERM, fs |-> fsys]
    ELSE [err |-> NoErr, fs |-> [fsys EXCEPT ![f] = NoFile]]

\* The loop with a return on the first error that is logged.
RECURSIVE RemoveEach_AbortOnError(_, _, _, _, _)
RemoveEach_AbortOnError(fsys, files, faulty, tried, logged) ==
    IF files = <<>> THEN [fs |-> fsys, tried |-> tried, logged |-> logged]
    ELSE LET d == osRemove(fsys, Head(files), faulty)
         IN  IF d.err \notin {NoErr, ENOENT}
             THEN [ fs |-> d.fs, tried |-> Append(tried, File(Head(files))),
                    logged |-> Append(logged, File(Head(files))) ]
             ELSE RemoveEach_AbortOnError(d.fs, Tail(files), faulty,
                                          Append(tried, File(Head(files))), logged)

\* for _, f := range files { if err := os.Remove(f); err != nil &&
\* !errors.Is(err, os.ErrNotExist) { logrus.Error(err) } }
RECURSIVE RemoveEach(_, _, _, _, _)
RemoveEach(fsys, files, faulty, tried, logged) ==
    IF files = <<>> THEN [fs |-> fsys, tried |-> tried, logged |-> logged]
    ELSE LET d == osRemove(fsys, Head(files), faulty)
         IN  RemoveEach(d.fs, Tail(files), faulty,
                        Append(tried, File(Head(files))),
                        IF d.err \notin {NoErr, ENOENT}
                        THEN Append(logged, File(Head(files))) ELSE logged)

\* The body of the function Remove returns, on the files it captured.
RemoveFunc(fsys, r, f, faulty, first1, first2) ==
    LET d  == RemoveEach(fsys, f.files, faulty, <<>>, <<>>)
        c1 == RemoveConnections(r, <<Conn(f.vm)>>, first1)
        c2 == RemoveConnections(c1.reg, <<RootConn(f.vm)>>, first2)
    IN  [ err    |-> NoErr,
          fs     |-> d.fs,
          reg    |-> c2.reg,
          tried  |-> d.tried \o <<Connection(Conn(f.vm)), Connection(RootConn(f.vm))>>,
          logged |-> d.logged
                     \o (IF c1.err # NoErr THEN <<Connection(Conn(f.vm))>> ELSE <<>>)
                     \o (IF c2.err # NoErr THEN <<Connection(RootConn(f.vm))>> ELSE <<>>) ]

Range(seq) == {seq[i] : i \in DOMAIN seq}

RemoveFuncStep(faulty, first1, first2) ==
    LET r == RemoveFunc(fs, reg, rm, faulty, first1, first2)
    IN  /\ Prompt
        /\ fs' = r.fs
        /\ reg' = r.reg
        /\ rm' = NoRm
        /\ last' = [Idle("RemoveFunc", rm.vm) EXCEPT
                      !.err = r.err, !.tried = r.tried, !.logged = r.logged]
        /\ UNCHANGED vfkit

\* The user confirms: the deletion function runs.
Firsts(conns) == IF conns = {} THEN {NoConn} ELSE conns

Confirm ==
    \E faulty \in SUBSET {f \in Range(rm.files) : fs[f] # NoFile} :
        /\ Cardinality(faulty) <= MaxFaults
        /\ \E first1 \in Firsts(reg.conns \ {Conn(rm.vm)}),
              first2 \in Firsts(reg.conns \ {Conn(rm.vm), RootConn(rm.vm)}) :
                RemoveFuncStep(faulty, first1, first2) /\ UNCHANGED <<inv, cf, qemu>>

\* The user declines: the deletion function is dropped.
Decline ==
    /\ Prompt
    /\ rm' = NoRm
    /\ last' = Idle("Decline", rm.vm)
    /\ UNCHANGED <<fs, vfkit, reg, inv, cf, qemu>>

(***************************************************************************)
(* Enumeration: getVMInfos, CheckExclusiveActiveVM, loadFromLocalJson, List *)
(***************************************************************************)
\* The names whose config file filepath.WalkDir meets, in its lexical order.
WalkDir(fsys, names) ==
    SelectSeq(HostVMs, LAMBDA n : n \in names /\ fsys[getVMConfigPath(n)] # NoFile)

ListResponse(m, running, starting, created, lastUp) ==
    [ Name |-> m.Name, Running |-> running, Starting |-> starting,
      CreatedAt |-> created, LastUp |-> lastUp,
      CPUs |-> m.CPUs, Memory |-> m.Memory, DiskSize |-> m.DiskSize ]

\* The body of the WalkDir callback of getVMInfos for one .json file: replies
\* is the reply of vm.State(false), io the outcome of every vm.writeConfig().
getVMInfo(fsys, name, reply, io) ==
    LET u   == Unmarshal(fsys[getVMConfigPath(name)])
        vm1 == IF u.m.Created = ZeroTime THEN [u.m EXCEPT !.Created = Now] ELSE u.m
        w1  == IF u.m.Created = ZeroTime THEN writeConfig(fsys, vm1, io)
               ELSE [err |-> NoErr, fs |-> fsys]
        vm2 == IF vm1.LastUp = ZeroTime THEN [vm1 EXCEPT !.LastUp = vm1.Created] ELSE vm1
        w2  == IF vm1.LastUp = ZeroTime THEN writeConfig(w1.fs, vm2, io)
               ELSE [err |-> NoErr, fs |-> w1.fs]
        e   == ListResponse(u.m, reply = Running, u.m.Starting, vm1.Created, vm2.LastUp)
    IN  IF u.err # NoErr THEN [err |-> u.err, fs |-> fsys, entry |-> <<>>]
        ELSE IF w1.err # NoErr THEN [err |-> w1.err, fs |-> w1.fs, entry |-> <<>>]
        ELSE IF reply \notin Statuses THEN [err |-> reply, fs |-> w1.fs, entry |-> <<>>]
        ELSE IF w2.err # NoErr THEN [err |-> w2.err, fs |-> w2.fs, entry |-> <<>>]
        ELSE [err |-> NoErr, fs |-> w2.fs, entry |-> <<e>>]

RECURSIVE getVMInfosWalk(_, _, _, _, _)
getVMInfosWalk(fsys, dir, replies, ios, listed) ==
    IF dir = <<>> THEN [err |-> NoErr, fs |-> fsys, listed |-> listed]
    ELSE LET r == getVMInfo(fsys, Head(dir), replies[Head(dir)], ios[Head(dir)])
         IN  IF r.err # NoErr THEN [err |-> r.err, fs |-> r.fs, listed |-> <<>>]
             ELSE getVMInfosWalk(r.fs, Tail(dir), replies, ios, listed \o r.entry)

\* an enumeration that drops the error of the walk
getVMInfos_IgnoreWalkError(fsys, names, replies, ios) ==
    [getVMInfosWalk(fsys, WalkDir(fsys, names), replies, ios, <<>>) EXCEPT !.err = NoErr]

getVMInfos(fsys, names, replies, ios) ==
    getVMInfosWalk(fsys, WalkDir(fsys, names), replies, ios, <<>>)

\* for _, vm := range fsVms { if vm.Running || vm.Starting { return true, ... } }
RECURSIVE FirstActive(_)
FirstActive(listed) ==
    IF listed = <<>> THEN [active |-> FALSE, name |-> ""]
    ELSE IF Head(listed).Running \/ Head(listed).Starting
    THEN [active |-> TRUE, name |-> Head(listed).Name]
    ELSE FirstActive(Tail(listed))

CheckExclusiveActiveVM(fsys, names, replies, ios) ==
    LET r == getVMInfos(fsys, names, replies, ios)
        a == IF r.err # NoErr THEN [active |-> FALSE, name |-> ""]
             ELSE FirstActive(r.listed)
    IN  [active |-> a.active, name |-> a.name, err |-> r.err, fs |-> r.fs]

RECURSIVE loadFromLocalJsonWalk(_, _, _)
loadFromLocalJsonWalk(fsys, dir, mms) ==
    IF dir = <<>> THEN [err |-> NoErr, mms |-> mms]
    ELSE LET ld == loadMacMachineFromJSON(fsys, getVMConfigPath(Head(dir)))
         IN  IF ld.err # NoErr THEN [err |-> ld.err, mms |-> <<>>]
             ELSE loadFromLocalJsonWalk(fsys, Tail(dir), Append(mms, ld.m))

loadFromLocalJson(fsys, names) == loadFromLocalJsonWalk(fsys, WalkDir(fsys, names), <<>>)

\* Virtualization.List: a refused connection counts as Stopped.
RECURSIVE ListWalk(_, _, _)
ListWalk(mms, replies, response) ==
    IF mms = <<>> THEN [err |-> NoErr, listed |-> response]
    ELSE LET mm      == Head(mms)
             reply   == replies[mm.Name]
             vmState == IF reply = ECONNREFUSED THEN Stopped ELSE reply
         IN  IF vmState \notin Statuses THEN [err |-> reply, listed |-> <<>>]
             ELSE ListWalk(Tail(mms), replies,
                           Append(response,
                                  ListResponse(mm, vmState = Running, vmState = Starting,
                                               mm.Created, mm.LastUp)))

VirtualizationList(fsys, names, replies) ==
    LET l == loadFromLocalJson(fsys, names)
    IN  IF l.err # NoErr THEN [err |-> l.err, listed |-> <<>>]
        ELSE ListWalk(l.mms, replies, <<>>)

\* what the state query of every machine of names may reply now
Replies(names) == {f \in [names -> Statuses \cup {ECONNREFUSED}] :
                      \A n \in names : f[n] \in StateReplies(n)}

ListStep(replies) ==
    LET r == VirtualizationList(fs, VMs, replies)
    IN  /\ ~Prompt
        /\ last' = [Idle("List", "") EXCEPT !.err = r.err, !.listed = r.listed]
        /\ UNCHANGED <<fs, vfkit, reg, rm>>

List == \E replies \in Replies(VMs) : ListStep(replies) /\ UNCHANGED <<inv, cf, qemu>>

\* the enumeration rewrites a config file only to stamp a zero timestamp
Stamps(fsys, n) ==
    /\ IsJSON(fsys[getVMConfigPath(n)])
    /\ ZeroTime \in {fsys[getVMConfigPath(n)].json.Created,
                     fsys[getVMConfigPath(n)].json.LastUp}

CheckExclusiveStep(names, replies, ios) ==
    LET r == CheckExclusiveActiveVM(fs, names, replies, ios)
    IN  /\ ~Prompt
        /\ fs' = r.fs
        /\ last' = [Idle("CheckExclusiveActiveVM", r.name) EXCEPT !.err = r.err]
        /\ UNCHANGED <<vfkit, reg, rm>>

CheckExclusive ==
    \E replies \in Replies(VMs), ios \in [VMs -> WriteOutcomes] :
        /\ \A n \in VMs : ~Stamps(fs, n) => ios[n] = NoErr
        /\ CheckExclusiveStep(VMs, replies, ios)
        /\ UNCHANGED <<inv, cf, qemu>>

(***************************************************************************)
(* podman machine start, run by several processes side by side on a host   *)
(* with the machines of HostVMs: each invocation loads the machine, asks    *)
(* CheckExclusiveActiveVM, and calls Start only when no machine is active.  *)
(***************************************************************************)
Procs == {"p1", "p2"}
HostNames == {HostVMs[i] : i \in DOMAIN HostVMs}
NoInvocation == [pc |-> "idle", vm |-> ""]

\* CheckExclusiveStep records the error and the name of the active machine
\* (none when nothing is active) in last.
CheckStep(p, v, replies, ios) ==
    /\ inv[p] = NoInvocation
    /\ LoadVMByName(fs, v).err = NoErr
    /\ CheckExclusiveStep(HostNames, replies, ios)
    /\ inv' = [inv EXCEPT ![p] = IF last'.err = NoErr /\ last'.vm = ""
                                 THEN [pc |-> "start", vm |-> v]
                                 ELSE NoInvocation]
    /\ UNCHANGED <<cf, qemu>>

HostCheck(p, v) ==
    \E replies \in Replies(HostNames), ios \in [HostNames -> WriteOutcomes] :
        /\ \A n \in HostNames : ~Stamps(fs, n) => ios[n] = NoErr
        /\ CheckStep(p, v, replies, ios)

HostStart(p) ==
    /\ inv[p].pc = "start"
    /\ StartRun(inv[p].vm)
    /\ inv' = [inv EXCEPT ![p] = NoInvocation]
    /\ UNCHANGED <<cf, qemu>>

HostInit ==
    /\ fs = [p \in PathsOf(HostNames) |-> NoFile]
    /\ vfkit = [v \in HostNames |-> Stopped]
    /\ reg = NoConnections
    /\ rm = NoRm
    /\ last = Idle("none", "")
    /\ inv = [p \in Procs |-> NoInvocation]
    /\ cf = NoConnections
    /\ qemu = NoCmdline

HostNext ==
    \/ \E v \in HostNames : NewScenarioMachine(v) \/ BackendReady(v) \/ Stop(v)
    \/ \E p \in Procs : (\E v \in HostNames : HostCheck(p, v)) \/ HostStart(p)

HostSpec == HostInit /\ [][HostNext]_vars

(***************************************************************************)
(* Requests to the connection registry.  A host keeps its connections in   *)
(* one of the two files: containers.conf (package machine) or the          *)
(* connections file (package connection); the other one stays empty.       *)
(***************************************************************************)
RegNames == {Conn("box"), RootConn("box"), Conn("dev")}
Identities == {NoPath, GetIdentityPath("box")}
NameLists == UNION {[1..n -> RegNames] : n \in 0..MaxNames}
Machines == UNION {[d -> BOOLEAN] : d \in SUBSET VMs}
PairOptions == {o \in InitOptions : ~o.IgnitionPath /\ o.ImagePath = ""}

AddConnectionStep(name, identity, isDefault) ==
    LET r == AddConnection(reg, name, identity, isDefault)
    IN  /\ cf = NoConnections
        /\ reg' = r.reg
        /\ last' = [Idle("AddConnection", "") EXCEPT
                      !.err = r.err, !.req = <<name, identity, isDefault>>]
        /\ UNCHANGED <<fs, vfkit, rm, inv, cf, qemu>>

MachineAddConnection ==
    \E name \in RegNames, identity \in Identities, isDefault \in BOOLEAN :
        AddConnectionStep(name, identity, isDefault)

\* the two AddConnection calls of MacMachine.Init
InitConnectionsStep(v, opts) ==
    LET r == InitConnections(reg, v, GetIdentityPath(v), opts)
    IN  /\ cf = NoConnections
        /\ reg' = r.reg
        /\ last' = [Idle("InitConnections", v) EXCEPT
                      !.err = r.err, !.req = InitNames(v, opts.Rootful)]
        /\ UNCHANGED <<fs, vfkit, rm, inv, cf, qemu>>

MachineInitConnections == \E opts \in PairOptions : InitConnectionsStep("box", opts)

ChangeDefaultStep(name) ==
    LET r == ChangeDefault(reg, name)
    IN  /\ cf = NoConnections
        /\ reg' = r.reg
        /\ last' = [Idle("ChangeDefault", "") EXCEPT !.err = r.err, !.req = <<name>>]
        /\ UNCHANGED <<fs, vfkit, rm, inv, cf, qemu>>

MachineChangeDefault == \E name \in RegNames : ChangeDefaultStep(name)

RemoveConnectionsStep(names, first) ==
    LET r == RemoveConnections(reg, names, first)
    IN  /\ cf = NoConnections
        /\ reg' = r.reg
        /\ last' = [Idle("RemoveConnections", "") EXCEPT
                      !.err = r.err, !.named = r.named, !.req = names]
        /\ UNCHANGED <<fs, vfkit, rm, inv, cf, qemu>>

MachineRemoveConnections ==
    \E names \in NameLists, first \in Firsts(reg.conns) :
        RemoveConnectionsStep(names, first)

addConnectionStep(cons, identity, isDefault) ==
    LET r == addConnection(cf, cons, identity, isDefault)
    IN  /\ reg = NoConnections
        /\ cf' = r.cf
        /\ last' = [Idle("addConnection", "") EXCEPT
                      !.err = r.err, !.named = r.named,
                      !.req = <<cons, identity, isDefault>>]
        /\ UNCHANGED <<fs, vfkit, rm, inv, reg, qemu>>

ConnectionAdd ==
    \E cons \in NameLists, identity \in Identities, isDefault \in BOOLEAN :
        addConnectionStep(cons, identity, isDefault)

UpdateConnectionPairPortStep(name) ==
    LET r == UpdateConnectionPairPort(cf, name)
    IN  /\ reg = NoConnections
        /\ cf' = r.cf
        /\ last' = [Idle("UpdateConnectionPairPort", name) EXCEPT !.err = r.err]
        /\ UNCHANGED <<fs, vfkit, rm, inv, reg, qemu>>

ConnectionUpdatePairPort == UpdateConnectionPairPortStep("box")

UpdateConnectionIfDefaultStep(rootful, name, rootfulName) ==
    LET r == UpdateConnectionIfDefault(cf, rootful, name, rootfulName)
    IN  /\ reg = NoConnections
        /\ cf' = r.cf
        /\ last' = [Idle("UpdateConnectionIfDefault", "") EXCEPT
                      !.err = r.err, !.req = <<rootful, name, rootfulName>>,
                      !.wrote = (r.cf # cf)]
        /\ UNCHANGED <<fs, vfkit, rm, inv, reg, qemu>>

ConnectionUpdateIfDefault ==
    \E rootful \in BOOLEAN, name \in RegNames, rootfulName \in RegNames :
        UpdateConnectionIfDefaultStep(rootful, name, rootfulName)

ConnectionRemoveStep(machines, names, first) ==
    LET r == ConnectionRemoveConnections(cf, machines, names, first)
    IN  /\ reg = NoConnections
        /\ cf' = r.cf
        /\ last' = [Idle("connection.RemoveConnections", "") EXCEPT
                      !.err = r.err, !.named = r.named, !.req = names]
        /\ UNCHANGED <<fs, vfkit, rm, inv, reg, qemu>>

ConnectionRemove ==
    \E machines \in Machines, names \in NameLists, first \in Firsts(cf.conns) :
        ConnectionRemoveStep(machines, names, first)

(***************************************************************************)
(* Two invocations that change the registry of package machine.  Each one  *)
(* reads the file (config.ReadCustomConfig), changes its own copy and      *)
(* writes the copy back (cfg.Write); nothing is held between the two.      *)
(***************************************************************************)
RaceNames == {Conn("box"), Conn("dev")}

RaceRequests ==
    {[op |-> o, name |-> n] :
        o \in {"AddConnection", "ChangeDefault", "RemoveConnections"}, n \in RaceNames}

Mutate(c, q, first) ==
    CASE q.op = "AddConnection" ->
            AddConnection(c, q.name, GetIdentityPath("box"), FALSE)
      [] q.op = "ChangeDefault" -> ChangeDefault(c, q.name)
      [] OTHER -> RemoveConnections(c, <<q.name>>, first)

ReadCustomConfigStep(p, q) ==
    /\ inv[p] = NoInvocation
    /\ cf = NoConnections
    /\ inv' = [inv EXCEPT ![p] = [pc |-> "write", vm |-> "", req |-> q, cfg |-> reg]]
    /\ UNCHANGED <<fs, vfkit, reg, rm, last, cf, qemu>>

InvocationRead(p) == \E q \in RaceRequests : ReadCustomConfigStep(p, q)

cfgWriteStep(p, first) ==
    LET r == Mutate(inv[p].cfg, inv[p].req, first)
    IN  /\ inv[p].pc = "write"
        /\ reg' = IF r.err = NoErr THEN r.reg ELSE reg
        /\ inv' = [inv EXCEPT ![p] = NoInvocation]
        /\ last' = [Idle(inv[p].req.op, "") EXCEPT
                      !.err = r.err, !.req = <<inv[p].req.name>>,
                      !.wrote = (r.err = NoErr)]
        /\ UNCHANGED <<fs, vfkit, rm, cf, qemu>>

InvocationWrite(p) ==
    /\ inv[p].pc = "write"
    /\ \E first \in Firsts(inv[p].cfg.conns) : cfgWriteStep(p, first)

RaceNext == \E p \in Procs : InvocationRead(p) \/ InvocationWrite(p)


RegNext ==
    \/ MachineAddConnection
    \/ MachineInitConnections
    \/ MachineChangeDefault
    \/ MachineRemoveConnections
    \/ ConnectionAdd
    \/ ConnectionUpdatePairPort
    \/ ConnectionUpdateIfDefault
    \/ ConnectionRemove

(***************************************************************************)
(* Invocations that persist a record while others load it.  os.WriteFile   *)
(* opens the file with O_TRUNC and then writes the bytes: between the two  *)
(* the file is empty.                                                      *)
(***************************************************************************)
OpenFileStep(p, v, m) ==
    /\ inv[p] = NoInvocation
    /\ fs' = [fs EXCEPT ![m.ConfigPath] = Truncated]
    /\ inv' = [inv EXCEPT ![p] = [pc |-> "writing", vm |-> v, m |-> m,
                                  old |-> fs[m.ConfigPath]]]
    /\ UNCHANGED <<vfkit, reg, rm, last, cf, qemu>>

\* the write of NewMachine
NewMachineOpen(p, v) ==
    \E cpus \in CPUCounts, mem \in MemSizes, disk \in DiskSizes :
        OpenFileStep(p, v, NewMachineRecord(v, cpus, mem, disk))

\* the write of Set
SetOpen(p, v) ==
    \E opts \in SetOptions :
        /\ LoadVMByName(fs, v).err = NoErr
        /\ OpenFileStep(p, v, SetFields(LoadVMByName(fs, v).m, opts).m)

FileWrite(p) ==
    /\ inv[p].pc = "writing"
    /\ fs' = [fs EXCEPT ![inv[p].m.ConfigPath] = Marshal(inv[p].m)]
    /\ inv' = [inv EXCEPT ![p] = NoInvocation]
    /\ last' = [Idle("writeConfig", inv[p].vm) EXCEPT !.m = inv[p].m, !.wrote = TRUE]
    /\ UNCHANGED <<vfkit, reg, rm, cf, qemu>>

LoadStep(name, rd) ==
    LET ld == LoadVMByNameRead(fs, name, rd)
    IN  /\ last' = [Idle("LoadVMByName", name) EXCEPT
                      !.err = ld.err, !.m = ld.m, !.req = <<rd>>]
        /\ UNCHANGED <<fs, vfkit, reg, rm, inv, cf, qemu>>

Load(name) ==
    \E rd \in ReadOutcomes :
        /\ ((name = "" \/ fs[getVMConfigPath(name)] = NoFile) => rd = NoErr)
        /\ LoadStep(name, rd)

PersistNext ==
    \/ \E p \in Procs, v \in VMs : NewMachineOpen(p, v) \/ SetOpen(p, v)
    \/ \E p \in Procs : FileWrite(p)
    \/ \E name \in VMs \cup {""} : Load(name)

(***************************************************************************)
(* The command line of the qemu provider.  A string is the sequence of its *)
(* pieces, a comma being a piece of its own, so that what a serializer     *)
(* joins, and with what, can be read back from its result; the empty       *)
(* string is the empty sequence.  An argument vector is a sequence of      *)
(* strings.                                                                *)
(***************************************************************************)
Empty == <<>>
Comma == <<",">>
Texts == {Empty, <<"x">>}
Itoa(n) == <<ToString(n)>>
OnOff(b) == IF b THEN <<"on">> ELSE <<"off">>

machineState == <<fs, vfkit, reg, rm, last, inv, cf>>

FirmwareConfigDevices == [Name : Texts, IgnitionFile : Texts, ConfigString : Texts]

\* FirmwareConfigDevice.ToCmdline that joins with a comma whatever came before.
FirmwareConfigDeviceToCmdline_AlwaysComma(f) ==
    LET v1 == IF f.Name # Empty THEN <<"name=">> \o f.Name ELSE Empty
        v2 == IF f.IgnitionFile # Empty
              THEN v1 \o Comma \o <<"file=">> \o f.IgnitionFile
              ELSE v1
        v3 == IF f.ConfigString # Empty
              THEN v2 \o Comma \o <<"string=">> \o f.ConfigString
              ELSE v2
    IN  << <<"-fw_cfg">>, v3 >>

FirmwareConfigDeviceToCmdline(f) ==
    LET v1 == IF f.Name # Empty THEN <<"name=">> \o f.Name ELSE Empty
        v2 == IF f.IgnitionFile # Empty
              THEN (IF Len(v1) > 0 THEN v1 \o Comma ELSE v1) \o <<"file=">> \o f.IgnitionFile
              ELSE v1
        v3 == IF f.ConfigString # Empty
              THEN (IF Len(v2) > 0 THEN v2 \o Comma ELSE v2) \o <<"string=">> \o f.ConfigString
              ELSE v2
    IN  << <<"-fw_cfg">>, v3 >>

QmpMonitors == [Network : Texts, Address : Texts, Server : BOOLEAN, Wait : BOOLEAN]

QmpMonitorToCmdline(q) ==
    LET v1 == IF q.Network # Empty /\ q.Address # Empty
              THEN q.Network \o <<":">> \o q.Address
              ELSE Empty
        v2 == (IF v1 # Empty THEN v1 \o Comma ELSE v1) \o <<"server=">> \o OnOff(q.Server)
        v3 == (IF v2 # Empty THEN v2 \o Comma ELSE v2) \o <<"wait=">> \o OnOff(q.Wait)
    IN  << <<"-qmp">>, v3 >>

FileDescriptors == {-1, 0, 3}
Sockets == [ID : Texts, FileDescriptor : FileDescriptors]

SocketToCmdline(s) ==
    <<"socket">> \o <<",", "id=vlan">>
        \o (IF s.FileDescriptor >= 0
            THEN <<",", "fd=">> \o Itoa(s.FileDescriptor)
            ELSE Empty)

VirtioNets == [NetDevice : Texts, MacAddress : Texts]

VirtioNetToCmdline(v) ==
    <<"virtio-net-pci">>
        \o (IF v.NetDevice # Empty THEN <<",", "netdev=">> \o v.NetDevice ELSE Empty)
        \o (IF v.MacAddress # Empty THEN <<",", "mac=">> \o v.MacAddress ELSE Empty)

Networks == [Socket : Sockets, VirtioNet : VirtioNets]

NetworkToCmdline(n) ==
    << <<"-netdev">>, SocketToCmdline(n.Socket),
       <<"-device">>, VirtioNetToCmdline(n.VirtioNet) >>

CharDevs == [SocketPath : Texts, Server : BOOLEAN, Wait : BOOLEAN, ID : Texts]
ReadyID == <<"id=apodman-machine-default_ready">>

\* CharDev.ToCmdline with the commented-out line that honours the Server field.
CharDevToCmdline_ServerField(c) ==
    LET v1 == IF c.SocketPath # Empty
              THEN <<"socket", ",", "path=">> \o c.SocketPath
              ELSE Empty
        v2 == (IF v1 # Empty THEN v1 \o Comma ELSE v1)
                  \o <<"server=">> \o OnOff(c.Server) \o <<",", "wait=">> \o OnOff(c.Wait)
        v3 == IF v2 # Empty THEN v2 \o Comma ELSE v2
    IN  << <<"-chardev">>, v3 \o ReadyID >>

CharDevToCmdline(c) ==
    LET v1 == IF c.SocketPath # Empty
              THEN <<"socket", ",", "path=">> \o c.SocketPath
              ELSE Empty
        v2 == (IF v1 # Empty THEN v1 \o Comma ELSE v1)
                  \o <<"server=">> \o <<"on">> \o <<",", "wait=">> \o OnOff(c.Wait)
        v3 == IF v2 # Empty THEN v2 \o Comma ELSE v2
    IN  << <<"-chardev">>, v3 \o ReadyID >>

VirtSerialPorts == [Name : Texts, CharDev : Texts]

VirtSerialPortToCmdline(v) ==
    << <<"-device">>,
       <<"virtserialport">>
           \o (IF v.CharDev # Empty THEN <<",", "chardev=">> \o v.CharDev ELSE Empty)
           \o (IF v.Name # Empty THEN <<",", "name=">> \o v.Name ELSE Empty) >>

SerialPorts == [PidFile : Texts, CharDev : CharDevs, VirtSerialPort : VirtSerialPorts]

SerialPortToCmdline(s) ==
    << <<"-device">>, <<"virtio-serial">> >>
        \o CharDevToCmdline(s.CharDev)
        \o VirtSerialPortToCmdline(s.VirtSerialPort)
        \o << <<"-pidfile">>, s.PidFile >>

Virtfss == [Path : Texts, MountTag : Texts, SecurityModel : Texts, ReadOnly : BOOLEAN]

VirtfsToCmdline(v) ==
    << <<"-virtfs">>,
       <<"local">>
           \o (IF v.Path # Empty THEN <<",", "path=">> \o v.Path ELSE Empty)
           \o (IF v.MountTag # Empty THEN <<",", "mount_tag=">> \o v.MountTag ELSE Empty)
           \o (IF v.SecurityModel # Empty
               THEN <<",", "security_model=">> \o v.SecurityModel ELSE Empty)
           \o (IF v.ReadOnly THEN <<",", "readonly">> ELSE Empty) >>

\* for _, fwCfgDev := range q.FirmwareConfigs { args = append(args, ...) }
RECURSIVE FirmwareConfigsToCmdline(_)
FirmwareConfigsToCmdline(devs) ==
    IF devs = <<>> THEN <<>>
    ELSE FirmwareConfigDeviceToCmdline(Head(devs)) \o FirmwareConfigsToCmdline(Tail(devs))

\* for _, mount := range q.Mounts { args = append(args, ...) }
RECURSIVE MountsToCmdline(_)
MountsToCmdline(mounts) ==
    IF mounts = <<>> THEN <<>>
    ELSE VirtfsToCmdline(Head(mounts)) \o MountsToCmdline(Tail(mounts))

\* QemuCmd.ToCmdline with the mounts emitted before the firmware configs.
QemuCmdToCmdline_MountsFirst(q) ==
    << <<"-m">>, Itoa(q.Memory) >>
        \o << <<"-smp">>, Itoa(q.CPUs) >>
        \o MountsToCmdline(q.Mounts)
        \o QmpMonitorToCmdline(q.QmpMonitor)
        \o NetworkToCmdline(q.Network)
        \o SerialPortToCmdline(q.SerialPort)
        \o FirmwareConfigsToCmdline(q.FirmwareConfigs)
        \o << <<"-display">>, IF q.Display THEN <<"true">> ELSE <<"none">> >>
        \o << <<"-accel">>, q.Accelerator >>
        \o << <<"-cpu">>, q.CPU >>
        \o << <<"-drive">>, <<"if=virtio", ",", "file=">> \o q.BootableImage >>
        \o (IF q.Bios # Empty THEN << <<"-bios">>, q.Bios >> ELSE <<>>)
        \o << <<"-M">>, q.Machine >>

QemuCmdToCmdline(q) ==
    << <<"-m">>, Itoa(q.Memory) >>
        \o << <<"-smp">>, Itoa(q.CPUs) >>
        \o FirmwareConfigsToCmdline(q.FirmwareConfigs)
        \o QmpMonitorToCmdline(q.QmpMonitor)
        \o NetworkToCmdline(q.Network)
        \o SerialPortToCmdline(q.SerialPort)
        \o MountsToCmdline(q.Mounts)
        \o << <<"-display">>, IF q.Display THEN <<"true">> ELSE <<"none">> >>
        \o << <<"-accel">>, q.Accelerator >>
        \o << <<"-cpu">>, q.CPU >>
        \o << <<"-drive">>, <<"if=virtio", ",", "file=">> \o q.BootableImage >>
        \o (IF q.Bios # Empty THEN << <<"-bios">>, q.Bios >> ELSE <<>>)
        \o << <<"-M">>, q.Machine >>

\* The command models handed to QemuCmd.ToCmdline: every combination of empty
\* and set scalar fields, every device either the zero value or fully set, and
\* up to MaxDevices mounts and firmware configs.
ZeroFirmwareConfig == [Name |-> Empty, IgnitionFile |-> Empty, ConfigString |-> Empty]
FullFirmwareConfig == [Name |-> <<"x">>, IgnitionFile |-> <<"x">>, ConfigString |-> Empty]
ZeroVirtfs == [Path |-> Empty, MountTag |-> Empty, SecurityModel |-> Empty, ReadOnly |-> FALSE]
FullVirtfs == [Path |-> <<"x">>, MountTag |-> <<"x">>, SecurityModel |-> <<"x">>, ReadOnly |-> TRUE]
ZeroQmpMonitor == [Network |-> Empty, Address |-> Empty, Server |-> FALSE, Wait |-> FALSE]
FullQmpMonitor == [Network |-> <<"x">>, Address |-> <<"x">>, Server |-> TRUE, Wait |-> FALSE]
ZeroNetwork ==
    [ Socket    |-> [ID |-> Empty, FileDescriptor |-> 0],
      VirtioNet |-> [NetDevice |-> Empty, MacAddress |-> Empty] ]
FullNetwork ==
    [ Socket    |-> [ID |-> <<"x">>, FileDescriptor |-> 3],
      VirtioNet |-> [NetDevice |-> <<"x">>, MacAddress |-> <<"x">>] ]
ZeroSerialPort ==
    [ PidFile        |-> Empty,
      CharDev        |-> [SocketPath |-> Empty, Server |-> FALSE, Wait |-> FALSE, ID |-> Empty],
      VirtSerialPort |-> [Name |-> Empty, CharDev |-> Empty] ]
FullSerialPort ==
    [ PidFile        |-> <<"x">>,
      CharDev        |-> [SocketPath |-> <<"x">>, Server |-> TRUE, Wait |-> TRUE, ID |-> <<"x">>],
      VirtSerialPort |-> [Name |-> <<"x">>, CharDev |-> <<"x">>] ]

SeqsUpTo(S, n) == UNION {[1..k -> S] : k \in 0..n}

QemuCmds ==
    [ Memory          : {2048},
      CPUs            : {2},
      CPU             : Texts,
      Bios            : Texts,
      BootableImage   : Texts,
      Display         : BOOLEAN,
      Accelerator     : Texts,
      Machine         : Texts,
      Mounts          : SeqsUpTo({ZeroVirtfs, FullVirtfs}, MaxDevices),
      FirmwareConfigs : SeqsUpTo({ZeroFirmwareConfig, FullFirmwareConfig}, MaxDevices),
      QmpMonitor      : {ZeroQmpMonitor, FullQmpMonitor},
      Network         : {ZeroNetwork, FullNetwork},
      SerialPort      : {ZeroSerialPort, FullSerialPort} ]

\* One serializer is applied to one model: a serialization reads nothing but
\* its model, so what came before it makes no difference.
FirmwareConfigDeviceCmdline ==
    /\ qemu = NoCmdline
    /\ \E f \in FirmwareConfigDevices :
           qemu' = [op |-> "FirmwareConfigDevice", in |-> f,
                        args |-> FirmwareConfigDeviceToCmdline(f)]
    /\ UNCHANGED machineState

QmpMonitorCmdline ==
    /\ qemu = NoCmdline
    /\ \E q \in QmpMonitors :
           qemu' = [op |-> "QmpMonitor", in |-> q, args |-> QmpMonitorToCmdline(q)]
    /\ UNCHANGED machineState

SocketCmdline ==
    /\ qemu = NoCmdline
    /\ \E s \in Sockets :
           qemu' = [op |-> "Socket", in |-> s, args |-> <<SocketToCmdline(s)>>]
    /\ UNCHANGED machineState

VirtioNetCmdline ==
    /\ qemu = NoCmdline
    /\ \E v \in VirtioNets :
           qemu' = [op |-> "VirtioNet", in |-> v, args |-> <<VirtioNetToCmdline(v)>>]
    /\ UNCHANGED machineState

NetworkCmdline ==
    /\ qemu = NoCmdline
    /\ \E n \in Networks :
           qemu' = [op |-> "Network", in |-> n, args |-> NetworkToCmdline(n)]
    /\ UNCHANGED machineState

CharDevCmdline ==
    /\ qemu = NoCmdline
    /\ \E c \in CharDevs :
           qemu' = [op |-> "CharDev", in |-> c, args |-> CharDevToCmdline(c)]
    /\ UNCHANGED machineState

VirtSerialPortCmdline ==
    /\ qemu = NoCmdline
    /\ \E v \in VirtSerialPorts :
           qemu' = [op |-> "VirtSerialPort", in |-> v, args |-> VirtSerialPortToCmdline(v)]
    /\ UNCHANGED machineState

SerialPortCmdline ==
    /\ qemu = NoCmdline
    /\ \E s \in SerialPorts :
           qemu' = [op |-> "SerialPort", in |-> s, args |-> SerialPortToCmdline(s)]
    /\ UNCHANGED machineState

VirtfsCmdline ==
    /\ qemu = NoCmdline
    /\ \E v \in Virtfss :
           qemu' = [op |-> "Virtfs", in |-> v, args |-> VirtfsToCmdline(v)]
    /\ UNCHANGED machineState

QemuCmdCmdline ==
    /\ qemu = NoCmdline
    /\ \E q \in QemuCmds :
           qemu' = [op |-> "QemuCmd", in |-> q, args |-> QemuCmdToCmdline(q)]
    /\ UNCHANGED machineState

CmdNext ==
    \/ FirmwareConfigDeviceCmdline
    \/ QmpMonitorCmdline
    \/ SocketCmdline
    \/ VirtioNetCmdline
    \/ NetworkCmdline
    \/ CharDevCmdline
    \/ VirtSerialPortCmdline
    \/ SerialPortCmdline
    \/ VirtfsCmdline
    \/ QemuCmdCmdline

(***************************************************************************)
(* machine.WaitPipeExists(pipeName, retries, checkFailure): the loop        *)
(*   for i := 0; i < retries; i++ { _, err = os.Stat(pipe); ... }           *)
(* run by an invocation, one step per call the loop makes.  os.Stat and     *)
(* checkFailure answer what the host decides at that moment.                *)
(***************************************************************************)
RetryCounts == -1..MaxRetries
StatOutcomes == {NoErr, ENOENT}
CheckFailureOutcomes == {NoErr, ErrProcessExited}

\* var err error; i := 0
WaitPipeExistsCall(p, retries) ==
    /\ inv[p] = NoInvocation
    /\ inv' = [inv EXCEPT ![p] = [pc |-> "for", vm |-> "", retries |-> retries,
                                  i |-> 0, err |-> NoErr, probes |-> 0,
                                  seen |-> FALSE, ret |-> NoErr]]
    /\ UNCHANGED <<fs, vfkit, reg, rm, last, cf, qemu>>

\* i < retries: _, err = os.Stat(...); if err == nil { break }
osStatStep(p, stat) ==
    /\ inv[p].pc = "for"
    /\ inv[p].i < inv[p].retries
    /\ inv' = [inv EXCEPT ![p].err = stat,
                          ![p].probes = @ + 1,
                          ![p].seen = (stat = NoErr),
                          ![p].ret = stat,
                          ![p].pc = IF stat = NoErr THEN "returned" ELSE "checkFailure"]
    /\ UNCHANGED <<fs, vfkit, reg, rm, last, cf, qemu>>

osStat(p) == \E stat \in StatOutcomes : osStatStep(p, stat)

\* if fail := checkFailure(); fail != nil { return fail }; time.Sleep; i++
checkFailureStep(p, fail) ==
    /\ inv[p].pc = "checkFailure"
    /\ inv' = [inv EXCEPT ![p].ret = fail,
                          ![p].i = IF fail = NoErr THEN @ + 1 ELSE @,
                          ![p].pc = IF fail = NoErr THEN "for" ELSE "returned"]
    /\ UNCHANGED <<fs, vfkit, reg, rm, last, cf, qemu>>

checkFailure(p) == \E fail \in CheckFailureOutcomes : checkFailureStep(p, fail)

\* the loop condition fails: return err
WaitPipeExistsReturn(p) ==
    /\ inv[p].pc = "for"
    /\ ~(inv[p].i < inv[p].retries)
    /\ inv' = [inv EXCEPT ![p].ret = inv[p].err, ![p].pc = "returned"]
    /\ UNCHANGED <<fs, vfkit, reg, rm, last, cf, qemu>>

WaitNext ==
    \E p \in Procs :
        \/ \E retries \in RetryCounts : WaitPipeExistsCall(p, retries)
        \/ osStat(p)
        \/ checkFailure(p)
        \/ WaitPipeExistsReturn(p)

Init ==
    /\ fs = [p \in Paths |-> NoFile]
    /\ vfkit = [v \in VMs |-> Stopped]
    /\ reg = NoConnections
    /\ rm = NoRm
    /\ last = Idle("none", "")
    /\ inv = [p \in Procs |-> NoInvocation]
    /\ cf = NoConnections
    /\ qemu = NoCmdline

\* Creation, start, stop and removal of a machine.
Next ==
    \E v \in VMs :
        \/ NewScenarioMachine(v)
        \/ MachineInit(v)
        \/ Start(v)
        \/ BackendReady(v)
        \/ Stop(v)
        \/ Remove(v)
        \/ Confirm
        \/ Decline

Spec == Init /\ [][Next]_vars

\* Creation, start, stop and resizing of a machine.
NextSet ==
    \E v \in VMs :
        \/ NewMachine(v)
        \/ Start(v)
        \/ BackendReady(v)
        \/ Stop(v)
        \/ Set(v)
        \/ List
        \/ CheckExclusive

SetSpec == Init /\ [][NextSet]_vars

\* Requests to the connection registry, from no connection at all.
RegSpec == Init /\ [][RegNext]_vars

\* the serializers of the qemu command line applied to command models
CmdSpec == Init /\ [][CmdNext]_vars

\* invocations that persist and load the record of a machine
PersistSpec == Init /\ [][PersistNext]_vars

\* two invocations of the registry requests of package machine
RaceSpec == Init /\ [][RaceNext]_vars

\* invocations that wait for the named pipe of a machine
WaitSpec == Init /\ [][WaitNext]_vars

\* The hypervisor is fair to a booting guest: it does signal readiness.
LiveSpec == Spec /\ \A v \in VMs : WF_vars(BackendReady(v))

(***************************************************************************)
(* Properties                                                              *)
(***************************************************************************)
ConfigExists(v) == fs[getVMConfigPath(v)] # NoFile
Loaded(v) == LoadVMByName(fs, v).m

\* C1: a Start issued while State reports Running returns ErrVMAlreadyRunning,
\* makes no call to startVfkit, and leaves the hypervisor state, the files and
\* the registry as they were.
C1_StartWhileRunning ==
    [][ last'.op = "Start" =>
          \A v \in VMs, io \in VfkitOutcomes :
              StartStep(v, Running, io) =>
                  /\ last'.err = ErrVMAlreadyRunning
                  /\ last'.calls = <<>>
                  /\ vfkit' = vfkit
                  /\ fs' = fs
                  /\ reg' = reg ]_vars

C1_Witness ==
    /\ last.op = "Start" /\ last.err = ErrVMAlreadyRunning
    /\ vfkit[last.vm] = Running

\* C2: a Stop issued while State reports Stopped or Starting returns
\* ErrWrongState, makes no call to the helper's stop, and leaves the
\* hypervisor state as it was.
C2_StopWhileNotRunning ==
    [][ last'.op = "Stop" =>
          \A v \in VMs, st \in {Stopped, Starting}, io \in VfkitOutcomes :
              StopStep(v, st, io) =>
                  /\ last'.err = ErrWrongState
                  /\ last'.calls = <<>>
                  /\ vfkit' = vfkit ]_vars

C2_Witness ==
    /\ last.op = "Stop" /\ last.err = ErrWrongState
    /\ vfkit[last.vm] = Starting

C4_RemoveRunningUnforced ==
    [][ last'.op = "Remove" =>
          \A v \in VMs, opts \in RemoveOptions :
              (~opts.Force /\ RemoveStep(v, Running, opts, NoErr)) =>
                  /\ last'.err = ErrInvalidStateRunning
                  /\ last'.calls = <<>>
                  /\ rm' = NoRm
                  /\ vfkit' = vfkit
                  /\ fs' = fs
                  /\ reg' = reg ]_vars

C4_Witness ==
    /\ last.op = "Remove" /\ last.err = ErrInvalidStateRunning
    /\ vfkit[last.vm] = Running
    /\ ConfigExists(last.vm)
    /\ rm = NoRm

\* C5: a forced Remove issued while State reports Running calls stop first;
\* when the stop succeeds the VM is stopped by the time the deletion function
\* is returned (and nothing is deleted yet), and when it fails Remove returns
\* its error and no deletion function, and nothing is deleted.
C5_ForcedRemoveStopsFirst ==
    [][ last'.op = "Remove" =>
          \A v \in VMs, opts \in RemoveOptions, io \in VfkitOutcomes :
              (opts.Force /\ RemoveStep(v, Running, opts, io)) =>
                  /\ last'.calls = <<"stop">>
                  /\ last'.err = io
                  /\ fs' = fs
                  /\ reg' = reg
                  /\ (io = NoErr => vfkit'[v] = Stopped /\ rm' # NoRm)
                  /\ (io # NoErr => rm' = NoRm) ]_vars

C5_Witness ==
    /\ last.op = "Remove" /\ last.err = NoErr /\ last.calls = <<"stop">>
    /\ rm # NoRm
    /\ vfkit[last.vm] = Stopped
    /\ ConfigExists(last.vm)

\* The files the options of Remove ask to delete.
ExpectedFiles(m, opts) ==
    (IF opts.SaveKeys THEN {} ELSE {m.IdentityPath, PubKey(m.IdentityPath)})
    \cup (IF opts.SaveIgnition THEN {} ELSE {m.IgnitionFile})
    \cup (IF opts.SaveImage THEN {} ELSE {m.ImagePath})
    \cup {m.ConfigPath}

MsgFiles(msg) == SubSeq(msg, 2, Len(msg) - 1)

\* C6: Remove itself deletes nothing: a file or a registry entry disappears
\* only in a run of the deletion function.  The message Remove returns lists
\* exactly the files that function tries to delete: the identity key and its
\* .pub unless SaveKeys, the ignition file unless SaveIgnition, the image unless
\* SaveImage, and always the config file.
C6_ConfirmationListsDeletions ==
    [][ /\ ( (\/ \E p \in Paths : fs[p] # NoFile /\ fs'[p] = NoFile
              \/ reg.conns \ reg'.conns # {})
             => Prompt /\ last'.op = "RemoveFunc" )
        /\ ( last'.op = "Remove" =>
               \A v \in VMs, st \in Statuses, opts \in RemoveOptions, io \in VfkitOutcomes :
                   (RemoveStep(v, st, opts, io) /\ rm' # NoRm) =>
                       /\ fs' = fs /\ reg' = reg
                       /\ Range(rm'.files) = ExpectedFiles(Loaded(v), opts)
                       /\ rm'.msg[1] = MsgHeader
                       /\ MsgFiles(rm'.msg) = rm'.files )
        /\ ( (Prompt /\ last'.op = "RemoveFunc") =>
               [i \in 1..Len(rm.files) |-> last'.tried[i]]
                   = [i \in 1..Len(rm.files) |-> File(MsgFiles(rm.msg)[i])] )
      ]_vars

C6_Witness ==
    /\ Prompt
    /\ Len(rm.files) = 5
    /\ \A i \in 1..5 : fs[rm.files[i]] # NoFile

\* C7: a run of the deletion function attempts the deletion of every file of
\* its list, in order, and then the removal of the registry entries name and
\* name-root, whichever of the deletions fail, and returns no error.
C7_CleanupNeverAborts ==
    [][ (Prompt /\ last'.op = "RemoveFunc") =>
          /\ last'.tried =
               [i \in 1..Len(rm.files) |-> File(rm.files[i])]
               \o <<Connection(Conn(rm.vm)), Connection(RootConn(rm.vm))>>
          /\ last'.err = NoErr ]_vars

C7_Witness ==
    /\ last.op = "RemoveFunc" /\ last.err = NoErr
    /\ Len(last.logged) = 3
    /\ last.logged[1] = last.tried[1]
    /\ ~ConfigExists(last.vm)

C9_StartThenRunningStopThenStopped ==
    /\ \A v \in VMs :
          (last.op = "Start" /\ last.vm = v /\ last.err = NoErr) ~> (vfkit[v] = Running)
    /\ [][ last'.op = "Stop" =>
             \A v \in VMs :
                 StopStep(v, Running, NoErr) =>
                     last'.err = NoErr /\ vfkit'[v] = Stopped ]_vars

C9_Witness ==
    /\ last.op = "Stop" /\ last.err = NoErr /\ last.calls = <<"stop">>
    /\ vfkit[last.vm] = Stopped

\* C10: whenever Start has returned without error, the VM is Running.
C10_StartReturnsWhenRunning ==
    (last.op = "Start" /\ last.err = NoErr) => vfkit[last.vm] = Running

\* C11: a Start issued while State reports Starting returns
\* ErrVMAlreadyRunning and makes no call to startVfkit.
C11_StartWhileStarting ==
    [][ last'.op = "Start" =>
          \A v \in VMs, io \in VfkitOutcomes :
              StartStep(v, Starting, io) =>
                  /\ last'.err = ErrVMAlreadyRunning
                  /\ last'.calls = <<>> ]_vars

\* C12: when every invocation asks CheckExclusiveActiveVM and calls Start only
\* after it reported no active machine, at most one machine of the host is
\* Running or Starting at any time.
C12_AtMostOneActive ==
    Cardinality({v \in DOMAIN vfkit : vfkit[v] \in {Running, Starting}}) <= 1

PersistedDisk(fsys, v) == fsys[getVMConfigPath(v)].json.DiskSize

\* C13: no step of NewMachine, Set, Start, Stop or an enumeration takes the
\* DiskSize persisted in the config file of a machine below what it was.
C13_DiskSizeNeverDecreases ==
    [][ \A v \in VMs :
          (IsJSON(fs[getVMConfigPath(v)]) /\ IsJSON(fs'[getVMConfigPath(v)]))
              => PersistedDisk(fs', v) >= PersistedDisk(fs, v) ]_vars

\* What the code does keep: no Set, Start, Stop, List or exclusivity check takes
\* the persisted DiskSize of a machine below what it was, and the record Set
\* leaves in memory has a DiskSize no smaller than the one loaded.
DiskSizeKeptAfterCreation ==
    [][ /\ ( last'.op \in {"Set", "Start", "Stop", "List", "CheckExclusiveActiveVM"} =>
               \A v \in VMs :
                   (IsJSON(fs[getVMConfigPath(v)]) /\ IsJSON(fs'[getVMConfigPath(v)]))
                       => PersistedDisk(fs', v) >= PersistedDisk(fs, v) )
        /\ ( last'.op = "Set" => last'.m.DiskSize >= Loaded(last'.vm).DiskSize )
      ]_vars

\* C14: a Set on a machine State reports Stopped that asks for a disk size
\* below the current one leaves DiskSize as loaded, in memory and in the config
\* file it writes, and returns the shrink error among its errors; a Set that
\* asks for a larger disk size and whose config write succeeds leaves the new
\* size in the persisted record.
C14_ShrinkRefusedGrowthPersisted ==
    [][ last'.op = "Set" =>
          \A v \in VMs, opts \in SetOptions, io \in WriteOutcomes :
              (opts.DiskSize # Nil /\ SetStep(v, Stopped, opts, io)) =>
                  /\ ( opts.DiskSize < Loaded(v).DiskSize =>
                         /\ last'.m.DiskSize = Loaded(v).DiskSize
                         /\ ErrShrink \in Range(last'.errs) \cup {last'.err}
                         /\ (io = NoErr => PersistedDisk(fs', v) = Loaded(v).DiskSize) )
                  /\ ( (opts.DiskSize > Loaded(v).DiskSize /\ io = NoErr) =>
                         /\ last'.err = NoErr /\ last'.errs = <<>>
                         /\ LoadVMByName(fs', v).err = NoErr
                         /\ LoadVMByName(fs', v).m.DiskSize = opts.DiskSize ) ]_vars

C14_Witness ==
    /\ last.op = "Set" /\ last.wrote /\ last.err = NoErr /\ last.errs = <<>>
    /\ Loaded(last.vm).DiskSize = 2
    /\ Loaded(last.vm).Created # ZeroTime
    /\ vfkit[last.vm] = Stopped

\* C15: whenever Set collected at least one error, the last one collected is
\* its primary error and the others are its list: a refused shrink whose config
\* write succeeds returns the shrink error as the primary error.
C15_LastErrorPromoted ==
    [][ last'.op = "Set" =>
          \A v \in VMs, opts \in SetOptions, io \in WriteOutcomes :
              SetStep(v, Stopped, opts, io) =>
                  LET shrink    == opts.DiskSize # Nil /\ opts.DiskSize < Loaded(v).DiskSize
                      collected == (IF shrink THEN <<ErrShrink>> ELSE <<>>)
                                   \o (IF io # NoErr THEN <<io>> ELSE <<>>)
                  IN  IF collected = <<>>
                      THEN last'.err = NoErr /\ last'.errs = <<>>
                      ELSE /\ last'.err = collected[Len(collected)]
                           /\ last'.errs = SubSeq(collected, 1, Len(collected) - 1) ]_vars

\* a registry whose default is empty or names one of its entries
DefaultIsAnEntry(r) == r.dflt = NoConn \/ r.dflt \in r.conns

\* C16: in every reachable state of the connection registry the default is
\* empty or names an entry of the mapping.
C16_DefaultNamesAnEntry == DefaultIsAnEntry(reg) /\ DefaultIsAnEntry(cf)

\* C17: an add with makeDefault = false to a registry without entries, be it
\* new or emptied by removals, succeeds and makes the added entry the default
\* (for a request of several entries, the first of them).
C17_FirstEntryBecomesDefault ==
    [][ /\ ( last'.op = "AddConnection" =>
               \A name \in RegNames :
                   (reg.conns = {} /\ AddConnectionStep(name, GetIdentityPath("box"), FALSE))
                       => /\ last'.err = NoErr
                          /\ reg'.conns = {name}
                          /\ reg'.dflt = name )
        /\ ( last'.op = "addConnection" =>
               \A cons \in NameLists :
                   ( /\ cf.conns = {} /\ cons # <<>>
                     /\ addConnectionStep(cons, GetIdentityPath("box"), FALSE)
                     /\ last'.err = NoErr )
                       => /\ cons[1] \in cf'.conns
                          /\ cf'.dflt = cons[1] )
      ]_vars

C17_Witness ==
    /\ last.op = "AddConnection" /\ last.err = NoErr
    /\ last.req = <<Conn("dev"), GetIdentityPath("box"), FALSE>>
    /\ reg = [conns |-> {Conn("dev")}, dflt |-> Conn("dev")]

\* C18: a removal that succeeds and takes the current default entry out of the
\* mapping leaves a default that names a remaining entry, or the empty default
\* when no entry remains.
C18_DefaultResetOnRemoval ==
    [][ /\ ( ( /\ last'.op = "RemoveConnections" /\ last'.err = NoErr
               /\ reg.dflt \in Range(last'.req) /\ reg.dflt \in reg.conns )
             => IF reg'.conns = {} THEN reg'.dflt = NoConn
                ELSE reg'.dflt \in reg'.conns )
        /\ ( ( /\ last'.op = "connection.RemoveConnections" /\ last'.err = NoErr
               /\ cf.dflt \in Range(last'.req) /\ cf.dflt \in cf.conns )
             => IF cf'.conns = {} THEN cf'.dflt = NoConn
                ELSE cf'.dflt \in cf'.conns )
      ]_vars

\* C19: an add fails when the identity is empty or a name of the request is
\* taken, and a failed add, the pair of machine Init included, leaves the
\* registry, entries and default, as it was.
C19_FailedAddChangesNothing ==
    [][ /\ ( last'.op = "AddConnection" =>
               \A name \in RegNames, identity \in Identities, isDefault \in BOOLEAN :
                   AddConnectionStep(name, identity, isDefault) =>
                       /\ (identity = NoPath \/ name \in reg.conns) => last'.err # NoErr
                       /\ last'.err # NoErr => reg' = reg )
        /\ ( last'.op = "addConnection" =>
               \A cons \in NameLists, identity \in Identities, isDefault \in BOOLEAN :
                   addConnectionStep(cons, identity, isDefault) =>
                       /\ (identity = NoPath \/ Range(cons) \cap cf.conns # {})
                             => last'.err # NoErr
                       /\ last'.err # NoErr => cf' = cf )
        /\ ( last'.op = "InitConnections" =>
               \A opts \in PairOptions :
                   InitConnectionsStep("box", opts) =>
                       /\ ({Conn("box"), RootConn("box")} \cap reg.conns # {})
                             => last'.err # NoErr
                       /\ last'.err # NoErr => reg' = reg )
      ]_vars

\* the name at which the deletion loop stops: the first one that is not an
\* entry of conns, or that an earlier name of the list has already deleted
Missing(names, conns, i) ==
    names[i] \notin conns \/ \E j \in 1..(i - 1) : names[j] = names[i]

FirstMissing(names, conns) ==
    names[CHOOSE i \in DOMAIN names :
              /\ Missing(names, conns, i)
              /\ \A k \in 1..(i - 1) : ~Missing(names, conns, k)]

NoRepeats(names) == \A i, j \in DOMAIN names : names[i] = names[j] => i = j

C21_DefaultFollowsRootfulness ==
    [][ last'.op = "UpdateConnectionIfDefault" =>
          \A rootful \in BOOLEAN, name \in RegNames, rootfulName \in RegNames :
              UpdateConnectionIfDefaultStep(rootful, name, rootfulName) =>
                  /\ last'.err = NoErr
                  /\ cf'.conns = cf.conns
                  /\ (cf.dflt = name /\ rootful) => cf'.dflt = rootfulName
                  /\ (cf.dflt = rootfulName /\ ~rootful) => cf'.dflt = name
                  /\ ~(cf.dflt = name /\ rootful) /\ ~(cf.dflt = rootfulName /\ ~rootful)
                        => cf'.dflt = cf.dflt ]_vars

C21_Witness ==
    /\ last.op = "UpdateConnectionIfDefault" /\ last.wrote
    /\ last.req = <<TRUE, Conn("box"), RootConn("box")>>
    /\ cf = [conns |-> {Conn("box"), RootConn("box"), Conn("dev")}, dflt |-> RootConn("box")]

\* C22: two concurrent registry mutations never interleave their
\* read-modify-write, and no update is lost: whenever an invocation writes the
\* registry, the registry it read is still the persisted one, so every entry
\* persisted by another invocation survives an add and a removal takes away
\* the named entry only.
C22_NoLostUpdate ==
    [][ \A p \in Procs :
          (inv[p].pc = "write" /\ inv'[p] = NoInvocation /\ last'.wrote) =>
              /\ inv[p].cfg = reg
              /\ inv[p].req.op = "AddConnection" =>
                     reg'.conns = reg.conns \cup {inv[p].req.name}
              /\ inv[p].req.op = "RemoveConnections" =>
                     reg'.conns = reg.conns \ {inv[p].req.name} ]_vars

\* the result of loading a file whose contents are b
LoadOf(b) == IF b = NoFile THEN [err |-> ErrNoSuchVM, m |-> NoMachine] ELSE Unmarshal(b)

\* C23: a reader that loads a record while a write of it is in progress gets
\* the complete previous record (or, for a file that did not exist, the
\* missing-machine answer) or the complete new record.
C23_ReaderSeesWholeRecord ==
    [][ \A p \in Procs :
          ( /\ inv[p].pc = "writing"
            /\ last'.op = "LoadVMByName" /\ last'.vm = inv[p].vm
            /\ last'.req = <<NoErr>> /\ inv' = inv )
          => \/ [err |-> last'.err, m |-> last'.m] = LoadOf(inv[p].old)
             \/ [err |-> last'.err, m |-> last'.m] = [err |-> NoErr, m |-> inv[p].m] ]_vars

C25_MissingDistinctFromUnreadable ==
    [][ (last'.op = "LoadVMByName" /\ last'.vm # "" /\ UNCHANGED <<fs, inv>>) =>
          LET file == fs[getVMConfigPath(last'.vm)]
          IN  /\ file = NoFile => (last'.err = ErrNoSuchVM /\ last'.m = NoMachine)
              /\ (file # NoFile /\ (last'.req # <<NoErr>> \/ ~IsJSON(file)))
                    => ( /\ last'.err \notin {NoErr, ErrNoSuchVM}
                         /\ last'.m = NoMachine ) ]_vars

C25_Witness ==
    /\ last.op = "LoadVMByName" /\ last.vm = "box"
    /\ last.err = ErrNoSuchVM /\ last.m = NoMachine /\ ~ConfigExists("box")

\* the flags of an argument vector made of flag/value pairs, and n copies of x
Flags(args) == [i \in 1..(Len(args) \div 2) |-> args[2 * i - 1]]
Rep(x, n) == [i \in 1..n |-> x]
\* t occurs in s
Has(s, t) == \E i \in 1..(Len(s) - Len(t) + 1) : SubSeq(s, i, i + Len(t) - 1) = t
\* no leading comma, no trailing comma, nothing empty between two commas
WellJoined(s) ==
    \/ s = Empty
    \/ /\ s[1] # "," /\ s[Len(s)] # ","
       /\ \A i \in 1..(Len(s) - 1) : ~(s[i] = "," /\ s[i + 1] = ",")

\* C26: QemuCmd.ToCmdline emits memory, cpu count, the firmware configs in
\* their order, monitor, network, serial port, the mounts in their order,
\* display, accelerator, cpu model, boot drive, bios (when set) and machine
\* type, in this order, and a second call on the same model returns the same
\* vector.
C26_FixedGroupOrder ==
    qemu.op = "QemuCmd" =>
        LET q == qemu.in
            a == qemu.args
            n == Len(q.FirmwareConfigs)
            k == Len(q.Mounts)
        IN  /\ Flags(a) =
                   << <<"-m">>, <<"-smp">> >> \o Rep(<<"-fw_cfg">>, n)
                     \o << <<"-qmp">>, <<"-netdev">>, <<"-device">>, <<"-device">>,
                           <<"-chardev">>, <<"-device">>, <<"-pidfile">> >>
                     \o Rep(<<"-virtfs">>, k)
                     \o << <<"-display">>, <<"-accel">>, <<"-cpu">>, <<"-drive">> >>
                     \o (IF q.Bios # Empty THEN << <<"-bios">> >> ELSE <<>>)
                     \o << <<"-M">> >>
            /\ Len(a) = 2 * Len(Flags(a))
            /\ a[2] = Itoa(q.Memory) /\ a[4] = Itoa(q.CPUs)
            /\ \A i \in 1..n :
                   SubSeq(a, 3 + 2 * i, 4 + 2 * i)
                       = FirmwareConfigDeviceToCmdline(q.FirmwareConfigs[i])
            /\ SubSeq(a, 5 + 2 * n, 6 + 2 * n) = QmpMonitorToCmdline(q.QmpMonitor)
            /\ SubSeq(a, 7 + 2 * n, 10 + 2 * n) = NetworkToCmdline(q.Network)
            /\ SubSeq(a, 11 + 2 * n, 18 + 2 * n) = SerialPortToCmdline(q.SerialPort)
            /\ \A j \in 1..k :
                   SubSeq(a, 17 + 2 * n + 2 * j, 18 + 2 * n + 2 * j)
                       = VirtfsToCmdline(q.Mounts[j])
            /\ a[Len(a)] = q.Machine
            /\ QemuCmdToCmdline(q) = a

C26_Witness ==
    /\ qemu.op = "QemuCmd"
    /\ qemu.in.FirmwareConfigs = <<ZeroFirmwareConfig, FullFirmwareConfig>>
    /\ qemu.in.Mounts = <<FullVirtfs, ZeroVirtfs>>
    /\ qemu.in.Bios # Empty
    /\ Len(qemu.args) = 38

\* C27: whatever fields are empty, every string produced by the
\* firmware-config, monitor, socket, virtio-net, character-device,
\* virtual-serial-port and filesystem-share serializers has no leading comma,
\* no trailing comma and no empty segment between two commas.
C27_FragmentsWellJoined ==
    qemu.op \in { "FirmwareConfigDevice", "QmpMonitor", "Socket", "VirtioNet",
                  "CharDev", "VirtSerialPort", "Virtfs" }
        => \A i \in 1..Len(qemu.args) : WellJoined(qemu.args[i])

C27_Witness ==
    /\ qemu.op = "QmpMonitor"
    /\ qemu.in.Network # Empty /\ qemu.in.Address = Empty
    /\ qemu.args[2] = <<"server=", "off", ",", "wait=", "on">>

\* C28: a field left at its zero value is omitted from the arguments: a zero
\* file descriptor gives no fd= sub-field, and no value of the vector is the
\* empty string (pidfile, machine type, accelerator, cpu model, the fragment
\* of a firmware config with all fields empty).
C28_ZeroValuesOmitted ==
    /\ (qemu.op = "Socket" /\ qemu.in.FileDescriptor = 0)
           => ~Has(qemu.args[1], <<"fd=">>)
    /\ qemu.op \in {"FirmwareConfigDevice", "SerialPort", "QemuCmd"}
           => \A i \in 1..Len(qemu.args) : qemu.args[i] # Empty

\* C29: the character-device fragment carries server=on whatever the Server
\* field holds, wait=on or wait=off as the Wait field says, and ends with the
\* fixed ready-channel identifier whatever the ID field holds; the serial-port
\* group is the virtio-serial device, the character device, the virtual
\* serial port and the pidfile flag, in this order.
C29_CharDevForcesServerOn ==
    /\ qemu.op = "CharDev" =>
           LET frag == qemu.args[2]
           IN  /\ Len(qemu.args) = 2 /\ qemu.args[1] = <<"-chardev">>
               /\ Has(frag, <<"server=", "on">>)
               /\ ~Has(frag, <<"server=", "off">>)
               /\ Has(frag, <<"wait=">> \o OnOff(qemu.in.Wait))
               /\ ~Has(frag, <<"wait=">> \o OnOff(~qemu.in.Wait))
               /\ SubSeq(frag, Len(frag) - 1, Len(frag)) = Comma \o ReadyID
               /\ \A i \in 1..(Len(frag) - 1) : frag[i] # ReadyID[1]
    /\ qemu.op = "SerialPort" =>
           qemu.args = << <<"-device">>, <<"virtio-serial">> >>
                          \o CharDevToCmdline(qemu.in.CharDev)
                          \o VirtSerialPortToCmdline(qemu.in.VirtSerialPort)
                          \o << <<"-pidfile">>, qemu.in.PidFile >>

C29_Witness ==
    /\ qemu.op = "CharDev"
    /\ ~qemu.in.Server /\ ~qemu.in.Wait
    /\ qemu.in.ID # Empty /\ qemu.in.SocketPath = Empty
    /\ qemu.args[2] = <<"server=", "on", ",", "wait=", "off", ",">> \o ReadyID

\* C30: whether a machine counts as active for CheckExclusiveActiveVM is what
\* the live state query answers: some machine is reported active exactly when
\* the backend reports some machine Running or Starting, whatever the Starting
\* flag of the persisted record holds.
C30_ActiveFromLiveQuery ==
    [][ \A replies \in Replies(VMs), ios \in [VMs -> WriteOutcomes] :
          (CheckExclusiveStep(VMs, replies, ios) /\ last'.err = NoErr) =>
              ( last'.vm # "" <=>
                  \E v \in VMs : /\ ConfigExists(v)
                                 /\ replies[v] \in {Running, Starting} ) ]_vars

\* C31: after a successful enumeration, List as well as the exclusivity check,
\* every record that was enumerated loads with a non-zero Created and a
\* non-zero LastUp.
C31_EnumerationStampsZeroTimes ==
    [][ ( /\ \/ \E replies \in Replies(VMs) : ListStep(replies)
             \/ \E replies \in Replies(VMs), ios \in [VMs -> WriteOutcomes] :
                    CheckExclusiveStep(VMs, replies, ios)
          /\ last'.err = NoErr ) =>
          \A v \in VMs :
              ConfigExists(v) =>
                  /\ LoadVMByName(fs', v).m.Created # ZeroTime
                  /\ LoadVMByName(fs', v).m.LastUp # ZeroTime ]_vars

\* a .json file of the configuration directory that does not parse
Unparseable(fsys, n) ==
    fsys[getVMConfigPath(n)] # NoFile /\ ~IsJSON(fsys[getVMConfigPath(n)])

\* C32: while some .json file of the configuration directory does not parse,
\* both enumerations fail as a whole whatever the other files hold: List and
\* getVMInfos return an error and an empty list, and CheckExclusiveActiveVM
\* returns that error with no active machine.
C32_EnumerationFailFast ==
    (\E n \in HostNames : Unparseable(fs, n)) =>
        \A replies \in Replies(HostNames) :
            /\ VirtualizationList(fs, HostNames, replies).err # NoErr
            /\ VirtualizationList(fs, HostNames, replies).listed = <<>>
            /\ \A ios \in [HostNames -> WriteOutcomes] :
                   /\ getVMInfos(fs, HostNames, replies, ios).err # NoErr
                   /\ getVMInfos(fs, HostNames, replies, ios).listed = <<>>
                   /\ CheckExclusiveActiveVM(fs, HostNames, replies, ios).err # NoErr
                   /\ ~CheckExclusiveActiveVM(fs, HostNames, replies, ios).active

\* an exclusivity check has failed on an unparseable file that WalkDir met
\* after the parseable record of a running machine
C32_Witness ==
    /\ last.op = "CheckExclusiveActiveVM" /\ last.err = ErrSyntax /\ last.vm = ""
    /\ IsJSON(fs[getVMConfigPath(HostVMs[1])])
    /\ vfkit[HostVMs[1]] = Running
    /\ Unparseable(fs, HostVMs[2])

\* C33: a state query answered with connection refused is read as Stopped by
\* every caller: List succeeds and reports that machine neither running nor
\* starting, and no command (Start, Stop, Set, the exclusivity check) returns
\* the refused connection as its error.
C33_RefusedConnectionReadsStopped ==
    [][ /\ \A replies \in Replies(VMs) :
              (ListStep(replies) /\ \A n \in VMs : ~Unparseable(fs, n)) =>
                  /\ last'.err = NoErr
                  /\ \A i \in DOMAIN last'.listed :
                         replies[last'.listed[i].Name] = ECONNREFUSED =>
                             /\ ~last'.listed[i].Running
                             /\ ~last'.listed[i].Starting
        /\ last'.err # ECONNREFUSED ]_vars

\* C34: NewMachine for the name of a machine that already exists (its record
\* loads) fails and leaves the config file of that machine as it was.
C34_NameCollisionRefused ==
    [][ \A v \in VMs, cpus \in CPUCounts, mem \in MemSizes, disk \in DiskSizes,
           io \in WriteOutcomes :
          (LoadVMByName(fs, v).err = NoErr /\ NewMachineStep(v, cpus, mem, disk, io)) =>
              /\ last'.err # NoErr
              /\ fs'[getVMConfigPath(v)] = fs[getVMConfigPath(v)] ]_vars

\* C35: a Stop issued while the backend reports the VM Starting is accepted:
\* it calls the helper's stop, returns without error when the helper does, and
\* leaves the VM Stopped, so that the start is cancelled.
C35_StopCancelsStart ==
    [][ \A v \in VMs :
          StopStep(v, Starting, NoErr) =>
              /\ last'.calls = <<"stop">>
              /\ last'.err = NoErr
              /\ vfkit'[v] = Stopped ]_vars

\* C36: a call of WaitPipeExists that has returned made at most retries probes;
\* it returned nil only when a probe observed the pipe; an error reported by
\* checkFailure was returned at that iteration; and with the retries used up,
\* a retries of zero or less included, it returned a non-nil error.
C36_WaitPipeExistsOutcome ==
    \A p \in Procs :
        (inv[p].pc = "returned") =>
            /\ inv[p].probes <= inv[p].retries \/ inv[p].probes = 0
            /\ inv[p].ret = NoErr => inv[p].seen
            /\ inv[p].ret = ErrProcessExited => inv[p].probes = inv[p].i + 1
            /\ ~(inv[p].i < inv[p].retries) => inv[p].ret # NoErr

\* C37: IsValidVMName(name) answers true exactly for the names LoadVMByName
\* loads, and false with an error for every other name.
C37_ValidNameIffLoadable ==
    \A name \in VMs \cup {""} :
        /\ IsValidVMName(fs, name).valid <=> LoadVMByName(fs, name).err = NoErr
        /\ ~IsValidVMName(fs, name).valid => IsValidVMName(fs, name).err # NoErr

\* C38: a removal that succeeds and names no entry that is the current default
\* leaves the default as it was, in the registry of package machine and in the
\* connections file of package connection.
C38_DefaultKeptUnlessRemoved ==
    [][ /\ ( ( /\ last'.op = "RemoveConnections" /\ last'.err = NoErr
               /\ reg.dflt \notin Range(last'.req) )
             => reg'.dflt = reg.dflt )
        /\ ( ( /\ last'.op = "connection.RemoveConnections" /\ last'.err = NoErr
               /\ cf.dflt \notin Range(last'.req) )
             => cf'.dflt = cf.dflt )
      ]_vars

\* C39: a Remove without force issued while State reports Starting or Stopped
\* is not refused: it returns the confirmation message and the deletion
\* function of that VM, calls no stop and leaves the hypervisor state and the
\* files as they were.
C39_RemoveBlocksOnlyOnRunning ==
    [][ last'.op = "Remove" =>
          \A v \in VMs, st \in {Starting, Stopped}, opts \in RemoveOptions :
              (~opts.Force /\ RemoveStep(v, st, opts, NoErr)) =>
                  /\ last'.err = NoErr
                  /\ last'.calls = <<>>
                  /\ rm' = [ vm    |-> v,
                             files |-> RemoveFiles(Loaded(v), opts),
                             msg   |-> ConfirmationMessage(RemoveFiles(Loaded(v), opts)) ]
                  /\ vfkit' = vfkit
                  /\ fs' = fs ]_vars

\* a Remove of a VM that is still starting has returned its deletion function
C39_Witness ==
    /\ last.op = "Remove" /\ last.err = NoErr /\ last.calls = <<>>
    /\ vfkit[last.vm] = Starting
    /\ rm # NoRm /\ rm.vm = last.vm

\* C40: a Set on a Stopped VM that asks for a CPU count or a memory size
\* together with a smaller disk size, and whose config write succeeds, is
\* applied in part: the persisted record holds the new CPU count and memory
\* size and the disk size it had, and the shrink error is among the errors
\* returned.
C40_SetNotAtomicAcrossFields ==
    [][ last'.op = "Set" =>
          \A v \in VMs, opts \in SetOptions :
              ( /\ opts.CPUs # Nil \/ opts.Memory # Nil
                /\ opts.DiskSize # Nil
                /\ opts.DiskSize < Loaded(v).DiskSize
                /\ SetStep(v, Stopped, opts, NoErr) ) =>
                  /\ last'.wrote
                  /\ LoadVMByName(fs', v).err = NoErr
                  /\ opts.CPUs # Nil => LoadVMByName(fs', v).m.CPUs = opts.CPUs
                  /\ opts.Memory # Nil => LoadVMByName(fs', v).m.Memory = opts.Memory
                  /\ LoadVMByName(fs', v).m.DiskSize = Loaded(v).DiskSize
                  /\ ErrShrink \in Range(last'.errs) \cup {last'.err} ]_vars

\* a Set has returned the shrink error and written a record that holds the
\* larger CPU count and memory size next to the disk size it refused to shrink
C40_Witness ==
    /\ last.op = "Set" /\ last.wrote
    /\ ErrShrink \in Range(last.errs)
    /\ Loaded(last.vm).CPUs = 2 /\ Loaded(last.vm).Memory = 2048
    /\ Loaded(last.vm).DiskSize = 2
    /\ last.m.CPUs = 2 /\ last.m.DiskSize = 2
====
